---------------------------- MODULE Spec2Model ----------------------------
(***************************************************************************)
(* Model of one invocation of the conch shell: the client construction     *)
(* with its version gate (util.BuildAPI, util.BuildAPIAndVerifyLogin), the *)
(* fatal error path (util.Bail), the rack-role accessors of package conch  *)
(* and the rack-layout import command, the device and user tables, the     *)
(* password change and the admin user and rack update commands.            *)
(*                                                                         *)
(* Strings that the code inspects character by character (version tags)    *)
(* are sequences of one-character strings.  An error value is a record     *)
(* [id, msg]: Go compares the sentinels by identity, so id names the       *)
(* sentinel and is "new" for an error made by errors.New or fmt.Errorf.    *)
(***************************************************************************)
EXTENDS Integers, Sequences, FiniteSets, TLC

VARIABLES
    pc,             \* position of the invocation
    cmd,            \* the entry point that was invoked
    exitCode,       \* -1 while running, then the process exit code
    output,         \* lines printed to standard output
    calls,          \* HTTP requests issued so far, in order
    JSON,           \* util.JSON
    IgnoreConfig,   \* util.IgnoreConfig
    Token,          \* util.Token
    FlagsDisableApiVersionCheck, \* util.FlagsDisableApiVersionCheck
    ActiveProfile,  \* util.ActiveProfile
    API,            \* util.API
    configWrites,   \* number of times the config file was serialized
    build,          \* conch.MinimumAPIVersion and BreakingAPIVersion of the
                    \* client that runs the command
    version,        \* BuildAPI's local: the tag returned by GetVersion
    sem,            \* BuildAPI's local: the cleaned server version
    gate,           \* outcome of BuildAPI's version gate
    arg,            \* the rack role handed to the accessor
    resp,           \* the HTTP response the accessor received
    r,              \* SaveGlobalRackRole: the entity behind the pointer r
    ret,            \* the value returned by a Get accessor
    err,            \* the error returned by the accessor
    importedLayout, \* rackImportLayout: the unmarshalled file
    overwriteOpt,   \* rackImportLayout: --overwrite
    existingLayout, \* rackImportLayout: result of GetRackLayout
    finalLayout,    \* rackImportLayout: the validated slots
    idx,            \* rackImportLayout: loop position of the act phase
    serverLayout,   \* the server: layout slots of the rack
    serverProducts, \* the server: hardware product list
    devicesArg,     \* DisplayDevices: the devices it was called with
    fullOutput,     \* DisplayDevices: its second parameter
    filledIn,       \* DisplayDevices: the local slice of the first loop
    users,          \* listAllUsers: result of GetAllUsers
    tokens,         \* listTokens: result of GetUserTokens
    Config,         \* util.Config: the API and Session the Login command sets
    viper,          \* the tester: the settings trace, debug and verbose
    logLevel,       \* the tester: the level of the logger
    wat,            \* MagicWorkspaceID, MagicRackID: the string to resolve
    entries,        \* the workspaces or racks the server returned
    password,       \* the password handed to IsPasswordSane, or the local
                    \* password of InteractiveForcePasswordChange
    email,          \* the server: the email address on the account
    entered,        \* the passwords typed at the prompt, in order
    forceOpt,       \* revokeTokens, deleteUser: --force
    revokeAuth,     \* revokeTokens: --auth-only
    tokenAuth,      \* revokeTokens: --tokens-only
    allAuth,        \* revokeTokens: --all
    clearTokensOpt, \* deleteUser: --clear-tokens
    emailOpt,       \* updateUser: --email
    nameOpt,        \* updateUser, rackUpdate: --name
    user,           \* updateUser, promoteUser, demoteUser: the user fetched
    fetched,        \* rackUpdate: the rack as GetRack returned it
    rack,           \* rackUpdate: the local r
    dcIDOpt,        \* rackUpdate: --datacenter-room-id
    roleIDOpt,      \* rackUpdate: --role-id
    snOpt,          \* rackUpdate: --serial-number
    assetTagOpt     \* rackUpdate: --asset-tag

vars == <<pc, cmd, exitCode, output, calls, JSON, IgnoreConfig, Token,
          FlagsDisableApiVersionCheck, ActiveProfile, API, configWrites,
          build, version, sem, gate, arg, resp, r, ret, err, importedLayout, overwriteOpt,
          existingLayout, finalLayout, idx, serverLayout, serverProducts,
          devicesArg, fullOutput, filledIn, users, tokens, Config,
          viper, logLevel, wat, entries, password, email, entered,
          forceOpt, revokeAuth, tokenAuth, allAuth, clearTokensOpt,
          emailOpt, nameOpt, user, fetched, rack, dcIDOpt, roleIDOpt, snOpt,
          assetTagOpt>>

cfgVars == <<JSON, IgnoreConfig, Token, FlagsDisableApiVersionCheck>>
loginVars == <<ActiveProfile, API, configWrites, build, version, sem, gate>>
roleVars == <<arg, resp, r, ret, err>>
importVars == <<importedLayout, overwriteOpt, existingLayout, finalLayout,
                idx, serverLayout, serverProducts>>
displayVars == <<devicesArg, fullOutput, filledIn>>
tableVars == <<users, tokens>>
flagVars == <<viper, logLevel>>
magicVars == <<wat, entries>>
adminVars == <<forceOpt, revokeAuth, tokenAuth, allAuth, clearTokensOpt, emailOpt,
               nameOpt, user, fetched, rack, dcIDOpt, roleIDOpt, snOpt, assetTagOpt>>
lateVars == <<password, email, entered, adminVars>>
moreVars == <<displayVars, tableVars, Config, flagVars, magicVars, lateVars>>

(***************************************************************************)
(* Bounds of the model.                                                    *)
(***************************************************************************)
MaxV == 2
MaxSlots == 2
MaxExisting == 2
MaxDevices == 2
MaxListed == 2
MaxWat == 2
MaxPrompts == 2

(***************************************************************************)
(* Errors.                                                                 *)
(***************************************************************************)
NoErr == [id |-> "nil", msg |-> ""]
NewError(m) == [id |-> "new", msg |-> m]
ErrBadInput == [id |-> "ErrBadInput", msg |-> "bad input"]
ErrNotAuthorized == [id |-> "ErrNotAuthorized", msg |-> "not authorized"]
ErrMalformedJWT == [id |-> "ErrMalformedJWT", msg |-> "malformed jwt"]
ErrNoSessionData == [id |-> "ErrNoSessionData", msg |-> "no session data"]
ErrLoginFailed == [id |-> "ErrLoginFailed", msg |-> "login failed"]

(***************************************************************************)
(* util.Bail: the message printed for an error, and the line as printed.   *)
(***************************************************************************)
BailMsgReloginOnly(e, tok) ==
    CASE e = ErrBadInput -> <<e.msg, " -- Internal Error. Please run with --debug and file a Github Issue">>
      [] e = ErrNotAuthorized -> <<e.msg, " -- Running 'profile relogin' might resolve this">>
      [] e = ErrMalformedJWT -> <<"The server sent a malformed auth token. Please contact the Conch team">>
      [] e = ErrLoginFailed -> <<"Something unexpected happened during authentication. Please run with --debug and contact the Conch team">>
      [] OTHER -> <<e.msg>>

\* the message Bail makes of the error
BailMsg(e, tok) ==
    CASE e = ErrBadInput -> <<e.msg, " -- Internal Error. Please run with --debug and file a Github Issue">>
      [] e = ErrNotAuthorized ->
           IF tok # "" THEN <<e.msg, " -- The API token might be incorrect or revoked">>
                       ELSE <<e.msg, " -- Running 'profile relogin' might resolve this">>
      [] e = ErrMalformedJWT -> <<"The server sent a malformed auth token. Please contact the Conch team">>
      [] e = ErrLoginFailed -> <<"Something unexpected happened during authentication. Please run with --debug and contact the Conch team">>
      [] OTHER -> <<e.msg>>

BailLineAlwaysPlain(e, json, tok) ==
    [kind |-> "error", fmt |-> "plain", message |-> BailMsg(e, tok), of |-> e]

\* the line Bail prints: the JSON object {"error":true,"message":msg} in JSON
\* mode, else msg alone; `of` remembers the error Bail was called with
BailLine(e, json, tok) ==
    [kind |-> "error", fmt |-> IF json THEN "json" ELSE "plain",
     message |-> BailMsg(e, tok), of |-> e]

\* Bail(err): print one line and leave through cli.Exit(1)
Bail(e, json) ==
    /\ output' = Append(output, BailLine(e, json, Token))
    /\ exitCode' = 1
    /\ pc' = "exited"

(***************************************************************************)
(* Version tags.                                                           *)
(***************************************************************************)

DigitVal(c) ==
    CASE c = "0" -> 0 [] c = "1" -> 1 [] c = "2" -> 2 [] c = "3" -> 3
      [] c = "4" -> 4 [] c = "5" -> 5 [] c = "6" -> 6 [] c = "7" -> 7
      [] c = "8" -> 8 [] c = "9" -> 9

RECURSIVE TrimLeft(_, _)
\* strings.TrimLeft: drop every leading character that is in the cutset
TrimLeft(s, cutset) ==
    IF s # <<>> /\ Head(s) \in cutset THEN TrimLeft(Tail(s), cutset) ELSE s

RECURSIVE SplitAcc(_, _, _)
SplitAcc(s, sep, cur) ==
    IF s = <<>> THEN <<cur>>
    ELSE IF Head(s) = sep THEN <<cur>> \o SplitAcc(Tail(s), sep, <<>>)
    ELSE SplitAcc(Tail(s), sep, Append(cur, Head(s)))

\* strings.Split with a one-character separator
Split(s, sep) == SplitAcc(s, sep, <<>>)

RECURSIVE NumVal(_)
NumVal(s) == IF s = <<>> THEN 0 ELSE NumVal(SubSeq(s, 1, Len(s) - 1)) * 10 + DigitVal(s[Len(s)])

\* semver: a numeric identifier without leading zeroes
IsNumeric(s) ==
    /\ s # <<>>
    /\ \A i \in 1..Len(s) : s[i] \in {"0", "1", "2", "3", "4", "5", "6", "7", "8", "9"}
    /\ ~(Len(s) > 1 /\ s[1] = "0")

NoVersion == [ok |-> FALSE, Major |-> 0, Minor |-> 0, Patch |-> 0]

\* semver.Parse of a string that holds no "-"; ok = FALSE where MustParse panics
SemverParse(s) ==
    LET parts == Split(s, ".") IN
    IF Len(parts) = 3 /\ \A i \in 1..3 : IsNumeric(parts[i])
    THEN [ok |-> TRUE, Major |-> NumVal(parts[1]), Minor |-> NumVal(parts[2]),
          Patch |-> NumVal(parts[3])]
    ELSE NoVersion

CleanVersionLastDash(tag) ==
    LET bits == Split(TrimLeft(tag, {"v"}), "-") IN SemverParse(bits[Len(bits)])

\* util.CleanVersion
CleanVersion(tag) ==
    LET bits == Split(TrimLeft(tag, {"v"}), "-") IN SemverParse(bits[1])

\* semver.Version.Compare on versions without pre-release
SemCompare(a, b) ==
    IF a.Major # b.Major THEN (IF a.Major < b.Major THEN -1 ELSE 1)
    ELSE IF a.Minor # b.Minor THEN (IF a.Minor < b.Minor THEN -1 ELSE 1)
    ELSE IF a.Patch # b.Patch THEN (IF a.Patch < b.Patch THEN -1 ELSE 1)
    ELSE 0

LT(a, b) == SemCompare(a, b) = -1
GTE(a, b) == SemCompare(a, b) >= 0

\* the pairs (minimum, breaking) a build of the client may carry; package
\* conch sets them, the first pair is the documented example
Builds ==
    { [min |-> <<"2", ".", "0", ".", "0">>, max |-> <<"3", ".", "0", ".", "0">>],
      [min |-> <<"2", ".", "5", ".", "0">>, max |-> <<"3", ".", "0", ".", "0">>],
      [min |-> <<"2", ".", "0", ".", "0">>, max |-> <<"2", ".", "9", "9", ".", "1", "0">>] }

MinimumAPIVersion == build.min
BreakingAPIVersion == build.max

\* util.DisableApiVersionCheck
DisableApiVersionCheck(flag) == flag # "0"

VersionGateGT(s, minSem, maxSem) ==
    IF s.Major # minSem.Major THEN "major"
    ELSE IF LT(s, minSem) \/ ~GTE(maxSem, s) THEN "range"
    ELSE "ok"

\* the two tests of BuildAPI on the cleaned server version
VersionGate(s, minSem, maxSem) ==
    IF s.Major # minSem.Major THEN "major"
    ELSE IF LT(s, minSem) \/ GTE(s, maxSem) THEN "range"
    ELSE "ok"

GateOutcomeCleanFirst(flag, s, minSem, maxSem) ==
    IF ~s.ok THEN "panic"
    ELSE IF DisableApiVersionCheck(flag) THEN "disabled"
    ELSE VersionGate(s, minSem, maxSem)

\* BuildAPI after GetVersion: "disabled" when it returns before the gate,
\* "panic" when semver.MustParse panics, else the outcome of the gate
GateOutcome(flag, s, minSem, maxSem) ==
    IF DisableApiVersionCheck(flag) THEN "disabled"
    ELSE IF ~s.ok THEN "panic"
    ELSE VersionGate(s, minSem, maxSem)

(***************************************************************************)
(* The version tags a server may return.                                   *)
(***************************************************************************)
Num(n) ==
    CASE n = 0 -> <<"0">> [] n = 1 -> <<"1">> [] n = 2 -> <<"2">>
      [] n = 3 -> <<"3">> [] n = 5 -> <<"5">> [] n = 9 -> <<"9">>
      [] n = 10 -> <<"1", "0">> [] n = 99 -> <<"9", "9">>

RECURSIVE Vs(_)
Vs(n) == IF n = 0 THEN <<>> ELSE <<"v">> \o Vs(n - 1)

Suffixes == { <<>>, <<"-", "a", "b", "c", "d", "e", "-", "d", "i", "r", "t", "y">>,
              <<"-", "1">> }

Core(v) == Num(v[1]) \o <<".">> \o Num(v[2]) \o <<".">> \o Num(v[3])

\* the semantic versions of the tags, around the two limits
Cores == { <<1, 0, 0>>, <<1, 9, 9>>, <<1, 99, 99>>, <<2, 0, 0>>, <<2, 0, 9>>,
           <<2, 5, 0>>, <<2, 9, 10>>, <<2, 99, 10>>, <<2, 99, 99>>,
           <<3, 0, 0>>, <<3, 5, 9>> }

WellFormedTags ==
    { Vs(n) \o Core(v) \o s : n \in 0..MaxV, v \in Cores, s \in Suffixes }

MalformedTags == { <<>>, <<"2", ".", "0">>, <<"v", "0", "2", ".", "0", ".", "0">>,
                   <<"d", "e", "v">>, <<"-", "2", ".", "0", ".", "0">> }

Tags == WellFormedTags \cup MalformedTags

(***************************************************************************)
(* Values of the invocation.                                               *)
(***************************************************************************)
\* Passwords, user names and email addresses are sequences of characters:
\* a head of two characters, filled up with "x" to the length
MinPasswordLength == 12
Pad(head, n) == [i \in 1..n |-> IF i <= Len(head) THEN head[i] ELSE "x"]
Passwords ==
    { Pad(h, n) : h \in [1..2 -> {"a", "A", "b", "@"}],
                  n \in {MinPasswordLength - 1, MinPasswordLength, MinPasswordLength + 1} }
\* the email address on the account
Email == Pad(<<"a", "@">>, MinPasswordLength)

NilProfile == [nil |-> TRUE, JWT |-> "", Token |-> "", User |-> <<>>]
\* a profile of the config file holds one auth token, a JWT or an API token
Profiles == { NilProfile,
              [nil |-> FALSE, JWT |-> "jwt1", Token |-> "",
               User |-> Pad(<<"a", "b">>, MinPasswordLength)],
              [nil |-> FALSE, JWT |-> "", Token |-> "tok1",
               User |-> Pad(<<"a", "b">>, MinPasswordLength)] }
\* util.Token as the start of the program leaves it: the token of the
\* command line or environment when the config is ignored, else the API
\* token of the active profile
ConfiguredTokens(ic, profile) == IF ic THEN {"", "tok1"} ELSE {profile.Token}
\* the user and the rack of a command that has fetched none
NoUser == [ID |-> "", Email |-> "", Name |-> "", IsAdmin |-> FALSE]
NoRack == [ID |-> "", DatacenterRoomID |-> <<>>, RoleID |-> <<>>, Name |-> "",
           SerialNumber |-> "", AssetTag |-> "", Phase |-> "", Created |-> 0,
           Updated |-> 0]
NilAPI == [set |-> FALSE, JWT |-> "", Token |-> ""]
NoConfig == [API |-> "", Session |-> ""]
Request(verb, path) == [verb |-> verb, path |-> path]

(***************************************************************************)
(* Rack roles, HTTP responses and the accessors of package conch.          *)
(***************************************************************************)
ZeroUUID == "00000000-0000-0000-0000-000000000000"
ZeroRole == [ID |-> ZeroUUID, Name |-> "", RackSize |-> 0]
Roles == [ID : {ZeroUUID, "uuid1", "uuid2"}, Name : {"", "role1"}, RackSize : {0, 42}]
ServerRoles == { [ID |-> "uuid1", Name |-> "role1", RackSize |-> 42],
                 [ID |-> "uuid2", Name |-> "role2", RackSize |-> 10] }

NoResponse == [kind |-> "none"]
\* a non-2xx response carries an APIError body; msg is its error field, ""
\* when the body has none
ErrorResponses == [kind : {"apierr"}, status : {400, 500}, msg : {"totally broken", ""}]
TransportFailure == [kind |-> "transport"]
RoleResponses ==
    { [kind |-> "ok", status |-> 200, body |-> b] : b \in ServerRoles }
        \cup ErrorResponses \cup {TransportFailure}
ListResponses ==
    { [kind |-> "ok", status |-> 200, body |-> [nil |-> FALSE, items |-> l]] :
        l \in { <<>>, <<[ID |-> "uuid1", Name |-> "role1", RackSize |-> 42]>>,
                <<[ID |-> "uuid1", Name |-> "role1", RackSize |-> 42],
                  [ID |-> "uuid2", Name |-> "role2", RackSize |-> 10]>> } }
        \cup ErrorResponses \cup {TransportFailure}
EmptyResponses == { [kind |-> "ok", status |-> 204] } \cup ErrorResponses \cup {TransportFailure}
\* the response a command's accessor call met: a 2xx one, or one that failed
OkResponse == [kind |-> "ok", status |-> 200]
HTTPFailures == {[kind |-> "apierr", status |-> 500, msg |-> "totally broken"],
                 TransportFailure}
HTTPFailed(rsp) == rsp.kind \in {"apierr", "transport"}

NoReturn == [kind |-> "none"]
EmptyList == [nil |-> FALSE, items |-> <<>>]
NilList == [nil |-> TRUE, items |-> <<>>]

AttemptsRetry(req, rsp) == IF HTTPFailed(rsp) THEN <<req, req>> ELSE <<req>>

\* the requests an accessor issues for one call, whatever the response: one
Attempts(req, rsp) == <<req>>

\* sling's Receive(successV, failureV): the value behind successV afterwards;
\* only a 2xx response is decoded into it
Receive(rsp, successV) == IF rsp.kind = "ok" THEN rsp.body ELSE successV

\* Conch.isHTTPResOk: the transport error unchanged, an error made from the
\* message of the APIError body for a non-2xx response, else nil
isHTTPResOk(rsp) ==
    IF rsp.kind = "transport" THEN NewError("connection refused")
    ELSE IF rsp.kind = "apierr" THEN NewError(rsp.msg)
    ELSE NoErr

GetGlobalRackRolesNil(rsp) ==
    [ret |-> [kind |-> "list", value |-> Receive(rsp, NilList)], err |-> isHTTPResOk(rsp)]

\* what GetGlobalRackRoles returns for a response
GetGlobalRackRolesResult(rsp) ==
    [ret |-> [kind |-> "list", value |-> Receive(rsp, EmptyList)], err |-> isHTTPResOk(rsp)]

\* what GetGlobalRackRole returns for a response
GetGlobalRackRoleResult(rsp) ==
    [ret |-> [kind |-> "role", value |-> Receive(rsp, ZeroRole)], err |-> isHTTPResOk(rsp)]

SaveRejectsNameOnly(role) == role.Name = ""

\* SaveGlobalRackRole: the required-field checks
SaveRejects(role) == role.Name = "" \/ role.RackSize = 0

SaveRequestAlwaysItem(role) ==
    [verb |-> "POST", path |-> <<"rack_role", role.ID>>,
     body |-> [id |-> role.ID, name |-> role.Name, rack_size |-> role.RackSize]]

\* SaveGlobalRackRole: the request it issues for an entity
SaveRequest(role) ==
    IF role.ID = ZeroUUID
    THEN [verb |-> "POST", path |-> <<"rack_role">>,
          body |-> [name |-> role.Name, rack_size |-> role.RackSize]]
    ELSE [verb |-> "POST", path |-> <<"rack_role", role.ID>>,
          body |-> [id |-> role.ID, name |-> role.Name, rack_size |-> role.RackSize]]

(***************************************************************************)
(* Rack layouts and hardware products of the import command.               *)
(***************************************************************************)
GRackUUID == "rack1"
Product(n) ==
    CASE n = 1 -> [ID |-> "prod1", Name |-> "name1", Alias |-> "alias1"]
      [] n = 2 -> [ID |-> "prod2", Name |-> "name2", Alias |-> "alias2"]
ProductLists == { <<>>, <<Product(1)>>, <<Product(1), Product(2)>> }

\* the product references a slot of the file may hold
SlotRefs ==
    { [ProductID |-> "prod1", ProductName |-> "", ProductAlias |-> ""],
      [ProductID |-> "prodX", ProductName |-> "", ProductAlias |-> ""],
      [ProductID |-> "prod1", ProductName |-> "nameX", ProductAlias |-> ""],
      [ProductID |-> ZeroUUID, ProductName |-> "name1", ProductAlias |-> ""],
      [ProductID |-> ZeroUUID, ProductName |-> "name1", ProductAlias |-> "aliasX"],
      [ProductID |-> ZeroUUID, ProductName |-> "nameX", ProductAlias |-> ""],
      [ProductID |-> ZeroUUID, ProductName |-> "nameX", ProductAlias |-> "alias1"],
      [ProductID |-> ZeroUUID, ProductName |-> "", ProductAlias |-> "alias1"],
      [ProductID |-> ZeroUUID, ProductName |-> "", ProductAlias |-> "aliasX"],
      [ProductID |-> ZeroUUID, ProductName |-> "", ProductAlias |-> ""] }

\* the files: slot i of a file has ru_start i
ImportLayouts ==
    UNION { { [i \in 1..n |-> [RUStart |-> i, ProductID |-> f[i].ProductID,
                               ProductName |-> f[i].ProductName,
                               ProductAlias |-> f[i].ProductAlias]] :
                f \in [1..n -> SlotRefs] } : n \in 0..MaxSlots }

SlotID(i) ==
    CASE i = 1 -> "slot1" [] i = 2 -> "slot2" [] i = 3 -> "slot3" [] OTHER -> "slot4"
NewSlotID(i) ==
    CASE i = 1 -> "new1" [] i = 2 -> "new2" [] i = 3 -> "new3" [] i = 4 -> "new4"
      [] OTHER -> "new5"
ExistingSlot(i) ==
    [ID |-> SlotID(i), RackID |-> GRackUUID, ProductID |-> "prod1", RUStart |-> 10 + i]
ExistingLayouts == { [i \in 1..n |-> ExistingSlot(i)] : n \in 0..MaxExisting }

\* the maps productsName, productsAlias and productsID: the entry of a key
\* is the last product of the list that carries it
HasKey(products, field, key) == \E i \in 1..Len(products) : products[i][field] = key
LookupID(products, field, key) ==
    LET i == CHOOSE k \in 1..Len(products) :
                 /\ products[k][field] = key
                 /\ \A m \in (k + 1)..Len(products) : products[m][field] # key
    IN products[i].ID

\* the first loop of rackImportLayout on one slot: the product ID it ends
\* with, or the error it bails with
ResolveSlotTrustID(l, products) ==
    IF l.ProductID = ZeroUUID
    THEN LET pid == IF l.ProductName # ""
                    THEN (IF HasKey(products, "Name", l.ProductName)
                          THEN LookupID(products, "Name", l.ProductName)
                          ELSE ZeroUUID)
                    ELSE IF l.ProductAlias # ""
                    THEN (IF HasKey(products, "Alias", l.ProductAlias)
                          THEN LookupID(products, "Alias", l.ProductAlias)
                          ELSE ZeroUUID)
                    ELSE ZeroUUID
         IN IF pid = ZeroUUID
            THEN [ok |-> FALSE, ProductID |-> pid,
                  err |-> NewError(<<"entry does not have a product id, name, or alias", l.RUStart>>)]
            ELSE [ok |-> TRUE, ProductID |-> pid, err |-> NoErr]
    ELSE [ok |-> TRUE, ProductID |-> l.ProductID, err |-> NoErr]

ResolveSlot(l, products) ==
    IF l.ProductID = ZeroUUID
    THEN LET pid == IF l.ProductName # ""
                    THEN (IF HasKey(products, "Name", l.ProductName)
                          THEN LookupID(products, "Name", l.ProductName)
                          ELSE ZeroUUID)
                    ELSE IF l.ProductAlias # ""
                    THEN (IF HasKey(products, "Alias", l.ProductAlias)
                          THEN LookupID(products, "Alias", l.ProductAlias)
                          ELSE ZeroUUID)
                    ELSE ZeroUUID
         IN IF pid = ZeroUUID
            THEN [ok |-> FALSE, ProductID |-> pid,
                  err |-> NewError(<<"entry does not have a product id, name, or alias", l.RUStart>>)]
            ELSE [ok |-> TRUE, ProductID |-> pid, err |-> NoErr]
    ELSE IF ~HasKey(products, "ID", l.ProductID)
    THEN [ok |-> FALSE, ProductID |-> l.ProductID,
          err |-> NewError(<<"Product ID is unknown", l.RUStart>>)]
    ELSE [ok |-> TRUE, ProductID |-> l.ProductID, err |-> NoErr]

\* the position of the first slot the first loop bails on, 0 when there is none
FirstBad(layout, products) ==
    IF \A i \in 1..Len(layout) : ResolveSlot(layout[i], products).ok THEN 0
    ELSE CHOOSE i \in 1..Len(layout) :
            /\ ~ResolveSlot(layout[i], products).ok
            /\ \A k \in 1..(i - 1) : ResolveSlot(layout[k], products).ok

\* finalLayout after the first loop has passed the first n slots
Validated(layout, products, n) ==
    [i \in 1..n |-> [RackID |-> GRackUUID,
                     ProductID |-> ResolveSlot(layout[i], products).ProductID,
                     RUStart |-> layout[i].RUStart]]

StopsAtBadSlotNever(bad) == FALSE

\* the first loop leaves through Bail at a bad slot, before the act phase
StopsAtBadSlot(bad) == bad # 0

OverwriteRefusedOffByOne(existing, overwrite) == Len(existing) > 1 /\ ~overwrite

\* the test on the existing layout after GetRackLayout
OverwriteRefused(existing, overwrite) == Len(existing) > 0 /\ ~overwrite

(***************************************************************************)
(* Devices and their rendering (DisplayDevices).  A time is a number, 0 is *)
(* the zero time.Time; a table cell is a string.                           *)
(***************************************************************************)

\* TimeStr: the time in the layout DateFormat
TimeStr(t) ==
    CASE t = 0 -> "0001-01-01 00:00:00 +0000 UTC"
      [] t = 1 -> "2019-03-01 10:00:00 +0000 UTC"
      [] OTHER -> "2019-04-02 11:30:00 +0000 UTC"

NoLocation == [Rack |-> [Name |-> ""], Room |-> [AZ |-> ""]]
Locations == {NoLocation, [Rack |-> [Name |-> "rackA"], Room |-> [AZ |-> "az1"]]}
FetchedLocation == [Rack |-> [Name |-> "rackB"], Room |-> [AZ |-> "az2"]]
Stamps ==
    { [Created |-> c[1], LastSeen |-> c[2], Validated |-> c[3], Graduated |-> c[4]] :
        c \in {<<1, 2, 1, 2>>, <<0, 0, 0, 0>>, <<0, 2, 1, 2>>, <<1, 0, 0, 0>>} }
DeviceID(i) == CASE i = 1 -> "dev1" [] i = 2 -> "dev2" [] OTHER -> "dev3"
Device(i, st, loc) ==
    [ID |-> DeviceID(i), AssetTag |-> "tag", Created |-> st.Created,
     LastSeen |-> st.LastSeen, Health |-> "pass", Graduated |-> st.Graduated,
     Validated |-> st.Validated, Phase |-> "production", Location |-> loc]
DeviceLists ==
    UNION { { [i \in 1..n |-> Device(i, f[i][1], f[i][2])] :
                f \in [1..n -> Stamps \X Locations] } : n \in 0..MaxDevices }

CondensedWithLocation(d) ==
    [id |-> d.ID, asset_tag |-> d.AssetTag, created |-> d.Created,
     last_seen |-> d.LastSeen, health |-> d.Health, graduated |-> d.Graduated,
     validated |-> d.Validated, phase |-> d.Phase, location |-> d.Location]

\* the anonymous struct of the condensed JSON output, by its json tags
Condensed(d) ==
    [id |-> d.ID, asset_tag |-> d.AssetTag, created |-> d.Created,
     last_seen |-> d.LastSeen, health |-> d.Health, graduated |-> d.Graduated,
     validated |-> d.Validated, phase |-> d.Phase]

\* the cell of a time that is tested with IsZero
BlankIfZero(t) == IF t = 0 THEN "" ELSE TimeStr(t)

DeviceHeader(full) ==
    (IF full THEN <<"AZ", "Rack">> ELSE <<>>)
      \o <<"ID", "Asset Tag", "Created", "Last Seen", "Health", "Validated",
           "Graduated", "Phase">>

\* the row table.Append receives for the device d
DeviceRow(d, full) ==
    (IF full THEN <<d.Location.Room.AZ, d.Location.Rack.Name>> ELSE <<>>)
      \o <<d.ID, d.AssetTag, TimeStr(d.Created), BlankIfZero(d.LastSeen), d.Health,
           BlankIfZero(d.Validated), BlankIfZero(d.Graduated), d.Phase>>

\* what DisplayDevices prints for the devices
DisplayOutput(devs, full, json) ==
    IF json
    THEN [kind |-> "data", fmt |-> "json",
          value |-> IF full THEN devs ELSE [i \in 1..Len(devs) |-> Condensed(devs[i])]]
    ELSE [kind |-> "table", fmt |-> "plain", header |-> DeviceHeader(full),
          rows |-> [i \in 1..Len(devs) |-> DeviceRow(devs[i], full)]]

(***************************************************************************)
(* Users and tokens and their tables (listAllUsers, listTokens).           *)
(***************************************************************************)
UserID(i) == CASE i = 1 -> "user1" [] i = 2 -> "user2" [] OTHER -> "user3"
UserLists ==
    UNION { { [i \in 1..n |-> [ID |-> UserID(i), Name |-> "name", Email |-> "mail",
                               Created |-> f[i][1], LastLogin |-> f[i][2],
                               IsAdmin |-> (i = 1)]] :
                f \in [1..n -> {0, 1} \X {0, 2}] } : n \in 0..MaxListed }
TokenName(i) == CASE i = 1 -> "token1" [] i = 2 -> "token2" [] OTHER -> "token3"
TokenLists ==
    UNION { { [i \in 1..n |-> [Name |-> TokenName(i), Created |-> f[i][1],
                               LastUsed |-> f[i][2]]] :
                f \in [1..n -> {0, 1} \X {0, 2}] } : n \in 0..MaxListed }

\* sort.Sort: the list in one of its orders
Orders(list) ==
    { [i \in 1..Len(list) |-> list[p[i]]] :
        p \in { q \in [1..Len(list) -> 1..Len(list)] :
                  \A a, b \in 1..Len(list) : q[a] = q[b] => a = b } }

UserHeader == <<"ID", "Name", "Email", "Created", "Last Login", "Is Admin">>
UserRow(u) ==
    <<u.ID, u.Name, u.Email, TimeStr(u.Created), BlankIfZero(u.LastLogin),
      IF u.IsAdmin THEN "X" ELSE "">>
TokenHeader == <<"Name", "Created", "Last Used">>
TokenRow(t) == <<t.Name, TimeStr(t.Created), BlankIfZero(t.LastUsed)>>

(***************************************************************************)
(* MagicWorkspaceID and MagicRackID.  A string is a sequence of            *)
(* characters; a UUID in its string form is two characters, a hyphen and   *)
(* one more character.  Of the syntax of regular expressions the model     *)
(* keeps the literal character, "." (any character) and "(", which opens a *)
(* group and makes an expression without the closing ")" invalid.          *)
(***************************************************************************)
NilUUID == <<"0", "0", "-", "0">>
\* uuid.FromString succeeds
IsUUID(str) ==
    /\ Len(str) = 4
    /\ str[3] = "-"
    /\ \A i \in {1, 2, 4} : str[i] \in {"a", "b", "1", "2", "3"}
WatArgs ==
    UNION { [1..n -> {"a", "b", ".", "("}] : n \in 0..MaxWat }
      \cup { <<"x">>, <<"a", "a", "-", "1">>, <<"b", "b", "-", "3">> }
Entry(i) ==
    CASE i = 1 -> [ID |-> <<"a", "a", "-", "1">>, Name |-> <<"x">>]
      [] i = 2 -> [ID |-> <<"a", "b", "-", "2">>, Name |-> <<"a", "a">>]
      [] OTHER -> [ID |-> <<"b", "a", "-", "3">>, Name |-> <<"a", "(">>]
EntryLists ==
    UNION { { [i \in 1..n |-> Entry(f[i])] :
                f \in { g \in [1..n -> 1..3] :
                          \A a, b \in 1..n : g[a] = g[b] => a = b } } :
            n \in 0..MaxListed }
EntryResponses ==
    { [kind |-> "ok", status |-> 200, body |-> l] : l \in EntryLists }
      \cup HTTPFailures

\* regexp.MustCompile accepts the expression
Compiles(expr) == \A i \in 1..Len(expr) : expr[i] # "("
\* re.MatchString for the expression "^" + expr, which compiles
MatchesAtStart(expr, str) ==
    /\ Len(str) >= Len(expr)
    /\ \A i \in 1..Len(expr) : expr[i] = "." \/ expr[i] = str[i]

\* the loop over the list: the first entry that matches, 0 when none does
FirstMatch(str, list) ==
    LET M == { i \in 1..Len(list) :
                 list[i].Name = str \/ MatchesAtStart(str \o <<"-">>, list[i].ID) }
    IN IF M = {} THEN 0 ELSE CHOOSE i \in M : \A j \in M : i <= j

\* MagicWorkspaceID and MagicRackID for the string, the response to the
\* list request and the word of the last error
MagicID(str, rsp, what) ==
    IF IsUUID(str) THEN [called |-> FALSE, panic |-> FALSE, id |-> str, err |-> NoErr]
    ELSE IF isHTTPResOk(rsp) # NoErr
    THEN [called |-> TRUE, panic |-> FALSE, id |-> NilUUID, err |-> isHTTPResOk(rsp)]
    ELSE IF ~Compiles(str \o <<"-">>)
    THEN [called |-> TRUE, panic |-> TRUE, id |-> NilUUID, err |-> NoErr]
    ELSE LET i == FirstMatch(str, rsp.body) IN
         IF i # 0
         THEN [called |-> TRUE, panic |-> FALSE, id |-> rsp.body[i].ID, err |-> NoErr]
         ELSE [called |-> TRUE, panic |-> FALSE, id |-> NilUUID,
               err |-> NewError(<<"Could not find ", what, " ", str>>)]

Init ==
    /\ pc = "start"
    /\ cmd = "none"
    /\ exitCode = -1
    /\ output = <<>>
    /\ calls = <<>>
    /\ JSON = FALSE
    /\ IgnoreConfig = FALSE
    /\ Token = ""
    /\ FlagsDisableApiVersionCheck = "0"
    /\ ActiveProfile = NilProfile
    /\ API = NilAPI
    /\ configWrites = 0
    /\ build = [min |-> <<>>, max |-> <<>>]
    /\ version = <<>>
    /\ sem = NoVersion
    /\ gate = "none"
    /\ arg = ZeroRole
    /\ resp = NoResponse
    /\ r = ZeroRole
    /\ ret = NoReturn
    /\ err = NoErr
    /\ importedLayout = <<>>
    /\ overwriteOpt = FALSE
    /\ existingLayout = <<>>
    /\ finalLayout = <<>>
    /\ idx = 0
    /\ serverLayout = <<>>
    /\ serverProducts = <<>>
    /\ devicesArg = <<>>
    /\ fullOutput = FALSE
    /\ filledIn = <<>>
    /\ users = <<>>
    /\ tokens = <<>>
    /\ Config = NoConfig
    /\ viper = [trace |-> FALSE, debug |-> FALSE, verbose |-> FALSE]
    /\ logLevel = "InfoLevel"
    /\ wat = <<>>
    /\ entries = <<>>
    /\ password = <<>>
    /\ email = <<>>
    /\ entered = <<>>
    /\ forceOpt = FALSE
    /\ revokeAuth = FALSE
    /\ tokenAuth = FALSE
    /\ allAuth = FALSE
    /\ clearTokensOpt = FALSE
    /\ emailOpt = ""
    /\ nameOpt = ""
    /\ user = NoUser
    /\ fetched = NoRack
    /\ rack = NoRack
    /\ dcIDOpt = <<>>
    /\ roleIDOpt = <<>>
    /\ snOpt = ""
    /\ assetTagOpt = ""

(***************************************************************************)
(* A command whose Before hook is util.BuildAPIAndVerifyLogin starts: the  *)
(* global options and the profile are those the command line and the       *)
(* config file gave.                                                       *)
(***************************************************************************)
StartCommand ==
    /\ pc = "start"
    /\ \E j \in BOOLEAN, ic \in BOOLEAN, f \in {"0", "1", ""}, p \in Profiles :
       \E t \in ConfiguredTokens(ic, p) :
         /\ JSON' = j
         /\ IgnoreConfig' = ic
         /\ Token' = t
         /\ FlagsDisableApiVersionCheck' = f
         /\ ActiveProfile' = p
    /\ build' \in Builds
    /\ pc' = "BuildAPI"
    /\ cmd' = "command"
    /\ UNCHANGED <<exitCode, output, calls, API, configWrites, version, sem, gate>>
    /\ UNCHANGED roleVars
    /\ UNCHANGED importVars
    /\ UNCHANGED moreVars

NewClientWithProfileJWT(ic, tok, profile) ==
    [set |-> TRUE, JWT |-> profile.JWT, Token |-> IF ic THEN tok ELSE profile.Token]

\* the client BuildAPI constructs
NewClient(ic, tok, profile) ==
    IF ic THEN [set |-> TRUE, JWT |-> "", Token |-> tok]
          ELSE [set |-> TRUE, JWT |-> profile.JWT, Token |-> profile.Token]

\* BuildAPI up to the return of API.GetVersion()
BuildAPIGetVersion ==
    /\ pc = "BuildAPI"
    /\ IF ~IgnoreConfig /\ ActiveProfile.nil
       THEN /\ Bail(NewError("no active profile"), JSON)
            /\ UNCHANGED <<calls, API, version, resp>>
       ELSE /\ API' = NewClient(IgnoreConfig, Token, ActiveProfile)
            /\ calls' = Append(calls, Request("GET", <<"version">>))
            /\ \/ \E tag \in Tags :
                    /\ version' = tag
                    /\ resp' = OkResponse
                    /\ pc' = "gate"
                    /\ UNCHANGED <<exitCode, output>>
               \/ \E rsp \in HTTPFailures :
                    /\ resp' = rsp
                    /\ Bail(isHTTPResOk(rsp), JSON)
                    /\ UNCHANGED version
    /\ UNCHANGED <<ActiveProfile, configWrites, build, sem, gate>>
    /\ UNCHANGED cmd
    /\ UNCHANGED cfgVars
    /\ UNCHANGED <<arg, r, ret, err>>
    /\ UNCHANGED importVars
    /\ UNCHANGED moreVars

\* BuildAPI from the DisableApiVersionCheck test to its end
BuildAPIGate ==
    /\ pc = "gate"
    /\ LET disabled == DisableApiVersionCheck(FlagsDisableApiVersionCheck)
           s == IF disabled THEN NoVersion ELSE CleanVersion(version)
           g == GateOutcome(FlagsDisableApiVersionCheck, CleanVersion(version),
                            CleanVersion(MinimumAPIVersion),
                            CleanVersion(BreakingAPIVersion))
       IN /\ gate' = g
          /\ sem' = s
          /\ IF g \in {"disabled", "ok"}
             THEN /\ pc' = "built"
                  /\ UNCHANGED <<exitCode, output>>
             ELSE IF g = "panic"
             THEN /\ pc' = "exited"
                  /\ exitCode' = 2
                  /\ UNCHANGED output
             ELSE Bail(NewError(<<"cannot continue", g>>), JSON)
    /\ UNCHANGED <<calls, ActiveProfile, API, configWrites, build, version>>
    /\ UNCHANGED cmd
    /\ UNCHANGED cfgVars
    /\ UNCHANGED roleVars
    /\ UNCHANGED importVars
    /\ UNCHANGED moreVars

VerifyBeforeGate == pc \in {"gate", "built"}

\* BuildAPIAndVerifyLogin: the verification follows the return of BuildAPI
AfterBuildAPI == pc = "built"

\* util.WriteConfig: the number of writes after it, and whether it failed
WriteConfigSkips(ic) == ic

\* the failures of a call that verifies a credential, with the error the
\* accessor makes of each
AuthFailures ==
    { [rsp |-> [kind |-> "apierr", status |-> 401, msg |-> ""], err |-> ErrNotAuthorized] }
      \cup { [rsp |-> x, err |-> isHTTPResOk(x)] : x \in HTTPFailures }

\* BuildAPIAndVerifyLogin after BuildAPI, when a token is configured
VerifyToken ==
    /\ AfterBuildAPI
    /\ Token # ""
    /\ calls' = Append(calls, Request("GET", <<"me">>))
    /\ \/ /\ pc' = "verified"
          /\ resp' = OkResponse
          /\ UNCHANGED <<exitCode, output>>
       \/ \E f \in AuthFailures :
            /\ resp' = f.rsp
            /\ Bail(f.err, JSON)
    /\ version' = <<>>
    /\ sem' = NoVersion
    /\ UNCHANGED <<ActiveProfile, API, configWrites, build, gate>>
    /\ UNCHANGED cmd
    /\ UNCHANGED cfgVars
    /\ UNCHANGED <<arg, r, ret, err>>
    /\ UNCHANGED importVars
    /\ UNCHANGED moreVars

\* BuildAPIAndVerifyLogin after BuildAPI, without a token: VerifyJwtLogin,
\* the copy of the JWT into the profile and WriteConfig.  VerifyJwtLogin
\* succeeds only for a client that carries a JWT, and may have refreshed it.
VerifyJwtLogin ==
    /\ AfterBuildAPI
    /\ Token = ""
    /\ calls' = Append(calls, Request("POST", <<"refresh_token">>))
    /\ version' = <<>>
    /\ sem' = NoVersion
    /\ \/ \E f \in AuthFailures :
            /\ resp' = f.rsp
            /\ Bail(f.err, JSON)
            /\ UNCHANGED <<ActiveProfile, API, configWrites>>
       \/ /\ resp' = [kind |-> "ok", status |-> 200, body |-> "malformed"]
          /\ Bail(ErrMalformedJWT, JSON)
          /\ UNCHANGED <<ActiveProfile, API, configWrites>>
       \/ /\ API.JWT # ""
          /\ resp' = OkResponse
          /\ \E jwt \in {API.JWT, "jwt2"} :
               /\ API' = [API EXCEPT !.JWT = jwt]
               /\ IF ActiveProfile.nil
                  THEN \* ActiveProfile.JWT = API.JWT dereferences nil
                       /\ pc' = "exited"
                       /\ exitCode' = 2
                       /\ UNCHANGED <<output, ActiveProfile, configWrites>>
                  ELSE /\ ActiveProfile' = [ActiveProfile EXCEPT !.JWT = jwt]
                       /\ IF WriteConfigSkips(IgnoreConfig)
                          THEN /\ pc' = "verified"
                               /\ UNCHANGED <<exitCode, output, configWrites>>
                          ELSE \/ /\ configWrites' = configWrites + 1
                                  /\ pc' = "verified"
                                  /\ UNCHANGED <<exitCode, output>>
                               \/ /\ Bail(NewError("cannot write config"), JSON)
                                  /\ UNCHANGED configWrites
    /\ UNCHANGED <<build, gate>>
    /\ UNCHANGED cmd
    /\ UNCHANGED cfgVars
    /\ UNCHANGED <<arg, r, ret, err>>
    /\ UNCHANGED importVars
    /\ UNCHANGED moreVars

\* the Action of the command (getSettings): its accessor call and its result
CommandAction ==
    /\ pc = "verified"
    /\ calls' = Append(calls, Request("GET", <<"user", "me", "settings">>))
    /\ \/ /\ pc' = "exited"
          /\ exitCode' = 0
          /\ output' = Append(output, [kind |-> "result",
                                       fmt |-> IF JSON THEN "json" ELSE "plain",
                                       message |-> <<"settings">>])
          /\ resp' = OkResponse
       \/ \E f \in AuthFailures :
            /\ resp' = f.rsp
            /\ Bail(f.err, JSON)
    /\ UNCHANGED loginVars
    /\ UNCHANGED cmd
    /\ UNCHANGED cfgVars
    /\ UNCHANGED <<arg, r, ret, err>>
    /\ UNCHANGED importVars
    /\ UNCHANGED moreVars

(***************************************************************************)
(* The rack-role accessors, each called once on a built client.            *)
(***************************************************************************)
Returned(name) ==
    /\ pc' = "returned"
    /\ cmd' = name
    /\ UNCHANGED <<exitCode, output>>
    /\ UNCHANGED cfgVars
    /\ UNCHANGED loginVars
    /\ UNCHANGED importVars
    /\ UNCHANGED moreVars

GetGlobalRackRoles ==
    /\ pc = "start"
    /\ \E rsp \in ListResponses :
         /\ calls' = Append(calls, Request("GET", <<"rack_role">>))
         /\ resp' = rsp
         /\ ret' = GetGlobalRackRolesResult(rsp).ret
         /\ err' = GetGlobalRackRolesResult(rsp).err
    /\ UNCHANGED <<arg, r>>
    /\ Returned("GetGlobalRackRoles")

GetGlobalRackRole ==
    /\ pc = "start"
    /\ \E id \in {"uuid1", "uuid2"}, rsp \in RoleResponses :
         /\ calls' = Append(calls, Request("GET", <<"rack_role", id>>))
         /\ resp' = rsp
         /\ ret' = GetGlobalRackRoleResult(rsp).ret
         /\ err' = GetGlobalRackRoleResult(rsp).err
    /\ UNCHANGED <<arg, r>>
    /\ Returned("GetGlobalRackRole")

SaveGlobalRackRole ==
    /\ pc = "start"
    /\ \E role \in Roles :
         /\ arg' = role
         /\ IF SaveRejects(role)
            THEN /\ err' = ErrBadInput
                 /\ r' = role
                 /\ UNCHANGED <<calls, resp>>
            ELSE \E rsp \in RoleResponses :
                    /\ calls' = Append(calls, SaveRequest(role))
                    /\ resp' = rsp
                    /\ r' = Receive(rsp, role)
                    /\ err' = isHTTPResOk(rsp)
    /\ UNCHANGED ret
    /\ Returned("SaveGlobalRackRole")

DeleteGlobalRackRole ==
    /\ pc = "start"
    /\ \E id \in {"uuid1", "uuid2"}, rsp \in EmptyResponses :
         /\ calls' = calls \o Attempts(Request("DELETE", <<"rack_role", id>>), rsp)
         /\ resp' = rsp
         /\ err' = isHTTPResOk(rsp)
    /\ UNCHANGED <<arg, r, ret>>
    /\ Returned("DeleteGlobalRackRole")

(***************************************************************************)
(* rackImportLayout.                                                       *)
(***************************************************************************)
ImportFrame ==
    /\ UNCHANGED cmd
    /\ UNCHANGED <<IgnoreConfig, Token, FlagsDisableApiVersionCheck>>
    /\ UNCHANGED loginVars
    /\ UNCHANGED <<arg, r, ret, err>>
    /\ UNCHANGED moreVars

\* the position after the first loop, or after a delete or a save
ActPc(deleted, saved, existing, final, overwrite) ==
    IF overwrite /\ deleted < Len(existing) THEN "import.delete"
    ELSE IF saved < Len(final) THEN "import.save"
    ELSE "exited"

\* the file is read and unmarshalled; the rack on the server is what it is
ImportStart ==
    /\ pc = "start"
    /\ cmd' = "rackImportLayout"
    /\ JSON' = TRUE
    /\ overwriteOpt' \in BOOLEAN
    /\ serverLayout' \in ExistingLayouts
    /\ serverProducts' \in ProductLists
    /\ \/ /\ importedLayout' \in ImportLayouts
          /\ pc' = "import.GetRack"
          /\ UNCHANGED <<exitCode, output>>
       \/ /\ output' = Append(output, BailLine(NewError("cannot read the layout"), TRUE, Token))
          /\ exitCode' = 1
          /\ pc' = "exited"
          /\ UNCHANGED importedLayout
    /\ UNCHANGED <<calls, existingLayout, finalLayout, idx>>
    /\ UNCHANGED <<IgnoreConfig, Token, FlagsDisableApiVersionCheck>>
    /\ UNCHANGED loginVars
    /\ UNCHANGED roleVars
    /\ UNCHANGED moreVars

ImportGetRack ==
    /\ pc = "import.GetRack"
    /\ calls' = Append(calls, Request("GET", <<"rack", GRackUUID>>))
    /\ \/ /\ pc' = "import.GetRackLayout"
          /\ resp' = OkResponse
          /\ UNCHANGED <<exitCode, output>>
       \/ \E rsp \in HTTPFailures :
            /\ resp' = rsp
            /\ Bail(isHTTPResOk(rsp), JSON)
    /\ UNCHANGED JSON
    /\ UNCHANGED importVars
    /\ ImportFrame

ImportGetRackLayout ==
    /\ pc = "import.GetRackLayout"
    /\ calls' = Append(calls, Request("GET", <<"rack", GRackUUID, "layouts">>))
    /\ \/ /\ existingLayout' = serverLayout
          /\ resp' = OkResponse
          /\ IF OverwriteRefused(serverLayout, overwriteOpt)
             THEN Bail(NewError("rack already has a layout. Use --overwrite to overwrite"), JSON)
             ELSE /\ pc' = "import.GetHardwareProducts"
                  /\ UNCHANGED <<exitCode, output>>
       \/ \E rsp \in HTTPFailures :
            /\ resp' = rsp
            /\ Bail(isHTTPResOk(rsp), JSON)
            /\ UNCHANGED existingLayout
    /\ UNCHANGED JSON
    /\ UNCHANGED <<importedLayout, overwriteOpt, finalLayout, idx, serverLayout,
                   serverProducts>>
    /\ ImportFrame

\* GetHardwareProducts, the three maps and the first loop
ImportGetHardwareProducts ==
    /\ pc = "import.GetHardwareProducts"
    /\ calls' = Append(calls, Request("GET", <<"hardware_product">>))
    /\ \/ LET bad == FirstBad(importedLayout, serverProducts) IN
          /\ resp' = OkResponse
          /\ IF StopsAtBadSlot(bad)
             THEN /\ finalLayout' = Validated(importedLayout, serverProducts, bad - 1)
                  /\ Bail(ResolveSlot(importedLayout[bad], serverProducts).err, JSON)
             ELSE LET n == IF bad = 0 THEN Len(importedLayout) ELSE bad - 1
                      final == Validated(importedLayout, serverProducts, n)
                      next == ActPc(0, 0, existingLayout, final, overwriteOpt)
                  IN /\ finalLayout' = final
                     /\ pc' = next
                     /\ exitCode' = IF next = "exited" THEN 0 ELSE exitCode
                     /\ UNCHANGED output
       \/ \E rsp \in HTTPFailures :
            /\ resp' = rsp
            /\ Bail(isHTTPResOk(rsp), JSON)
            /\ UNCHANGED finalLayout
    /\ UNCHANGED JSON
    /\ UNCHANGED <<importedLayout, overwriteOpt, existingLayout, idx, serverLayout,
                   serverProducts>>
    /\ ImportFrame

CallsBeforeBailUndo(deleted, saved) ==
    [i \in 1..saved |-> Request("DELETE", <<"layout", NewSlotID(i)>>)]

\* the requests between a failed delete or save and the Bail that follows
\* it, after `deleted` deletes and `saved` saves that succeeded: none
CallsBeforeBail(deleted, saved) == <<>>

\* the server's layout without the slot id
WithoutSlot(layout, id) == SelectSeq(layout, LAMBDA x : x.ID # id)

\* one iteration of the loop over existingLayout
ImportDelete ==
    /\ pc = "import.delete"
    /\ LET x == existingLayout[idx + 1]
           req == Request("DELETE", <<"layout", x.ID>>) IN
       \/ LET next == ActPc(idx + 1, 0, existingLayout, finalLayout, overwriteOpt) IN
          /\ calls' = Append(calls, req)
          /\ resp' = OkResponse
          /\ serverLayout' = WithoutSlot(serverLayout, x.ID)
          /\ idx' = IF next = "import.delete" THEN idx + 1 ELSE 0
          /\ pc' = next
          /\ exitCode' = IF next = "exited" THEN 0 ELSE exitCode
          /\ UNCHANGED output
       \/ \E rsp \in HTTPFailures :
            /\ calls' = Append(calls, req) \o CallsBeforeBail(idx, 0)
            /\ resp' = rsp
            /\ Bail(isHTTPResOk(rsp), JSON)
            /\ UNCHANGED <<serverLayout, idx>>
    /\ UNCHANGED JSON
    /\ UNCHANGED <<importedLayout, overwriteOpt, existingLayout, finalLayout,
                   serverProducts>>
    /\ ImportFrame

\* one iteration of the loop over finalLayout
ImportSave ==
    /\ pc = "import.save"
    /\ LET x == finalLayout[idx + 1]
           req == [verb |-> "POST", path |-> <<"layout">>, body |-> x] IN
       \/ LET next == ActPc(Len(existingLayout), idx + 1, existingLayout,
                            finalLayout, overwriteOpt) IN
          /\ calls' = Append(calls, req)
          /\ resp' = OkResponse
          /\ serverLayout' = Append(serverLayout,
                                    [ID |-> NewSlotID(idx + 1), RackID |-> x.RackID,
                                     ProductID |-> x.ProductID, RUStart |-> x.RUStart])
          /\ idx' = idx + 1
          /\ pc' = next
          /\ exitCode' = IF next = "exited" THEN 0 ELSE exitCode
          /\ UNCHANGED output
       \/ \E rsp \in HTTPFailures :
            /\ calls' = Append(calls, req) \o CallsBeforeBail(0, idx)
            /\ resp' = rsp
            /\ Bail(isHTTPResOk(rsp), JSON)
            /\ UNCHANGED <<serverLayout, idx>>
    /\ UNCHANGED JSON
    /\ UNCHANGED <<importedLayout, overwriteOpt, existingLayout, finalLayout,
                   serverProducts>>
    /\ ImportFrame

(***************************************************************************)
(* util.DisplayDevices, called with a list of devices.                     *)
(***************************************************************************)
DisplayFrame ==
    /\ UNCHANGED <<cmd, exitCode>>
    /\ UNCHANGED cfgVars
    /\ UNCHANGED loginVars
    /\ UNCHANGED <<arg, r, ret>>
    /\ UNCHANGED importVars
    /\ UNCHANGED tableVars
    /\ UNCHANGED Config
    /\ UNCHANGED <<flagVars, magicVars, lateVars>>

DisplayDevicesStart ==
    /\ pc = "start"
    /\ cmd' = "DisplayDevices"
    /\ JSON' \in BOOLEAN
    /\ devicesArg' \in DeviceLists
    /\ fullOutput' \in BOOLEAN
    /\ pc' = IF fullOutput' THEN "display.fill" ELSE "display.render"
    /\ UNCHANGED <<exitCode, output, calls, filledIn>>
    /\ UNCHANGED <<IgnoreConfig, Token, FlagsDisableApiVersionCheck>>
    /\ UNCHANGED loginVars
    /\ UNCHANGED roleVars
    /\ UNCHANGED importVars
    /\ UNCHANGED tableVars
    /\ UNCHANGED Config
    /\ UNCHANGED <<flagVars, magicVars, lateVars>>

\* the first loop: one device, or its end
DisplayFill ==
    /\ pc = "display.fill"
    /\ IF Len(filledIn) = Len(devicesArg)
       THEN /\ pc' = "display.render"
            /\ UNCHANGED <<calls, filledIn, err, resp>>
       ELSE LET d == devicesArg[Len(filledIn) + 1] IN
            IF d.Location.Rack.Name = ""
            THEN /\ calls' = Append(calls, Request("GET", <<"device", d.ID, "location">>))
                 /\ \/ /\ filledIn' = Append(filledIn, [d EXCEPT !.Location = FetchedLocation])
                       /\ resp' = OkResponse
                       /\ UNCHANGED <<pc, err>>
                    \/ \E rsp \in HTTPFailures :
                         /\ resp' = rsp
                         /\ err' = isHTTPResOk(rsp)
                         /\ pc' = "returned"
                         /\ UNCHANGED filledIn
            ELSE /\ filledIn' = Append(filledIn, d)
                 /\ UNCHANGED <<pc, calls, err, resp>>
    /\ UNCHANGED <<output, devicesArg, fullOutput>>
    /\ DisplayFrame

\* the rest of DisplayDevices
DisplayRender ==
    /\ pc = "display.render"
    /\ LET devices == IF fullOutput THEN filledIn ELSE devicesArg IN
       output' = Append(output, DisplayOutput(devices, fullOutput, JSON))
    /\ pc' = "returned"
    /\ UNCHANGED <<calls, err, resp>>
    /\ UNCHANGED displayVars
    /\ DisplayFrame

(***************************************************************************)
(* The Action of a command that lists: listAllUsers, listTokens.           *)
(***************************************************************************)
StartAction ==
    /\ pc = "start"
    /\ cmd' \in {"listAllUsers", "listTokens", "rackDelete", "Login",
                "revokeTokens", "deleteUser", "updateUser", "promoteUser",
                "demoteUser", "rackUpdate"}
    /\ JSON' \in BOOLEAN
    /\ Token' \in {"", "tok1"}
    /\ pc' = "action"
    /\ UNCHANGED <<exitCode, output, calls>>
    /\ UNCHANGED <<IgnoreConfig, FlagsDisableApiVersionCheck>>
    /\ UNCHANGED loginVars
    /\ UNCHANGED roleVars
    /\ UNCHANGED importVars
    /\ UNCHANGED moreVars

ActionFrame ==
    /\ UNCHANGED cmd
    /\ UNCHANGED cfgVars
    /\ UNCHANGED <<ActiveProfile, API, build, version, sem, gate>>
    /\ UNCHANGED <<arg, r, ret, err>>
    /\ UNCHANGED importVars
    /\ UNCHANGED displayVars
    /\ UNCHANGED <<flagVars, magicVars, lateVars>>

\* the line table.Render prints, or JSONOut
Listed(list, header, rows, json) ==
    IF json THEN [kind |-> "data", fmt |-> "json", value |-> list]
    ELSE [kind |-> "table", fmt |-> "plain", header |-> header, rows |-> rows]

listAllUsers ==
    /\ pc = "action"
    /\ cmd = "listAllUsers"
    /\ calls' = Append(calls, Request("GET", <<"user">>))
    /\ \/ \E got \in UserLists :
            /\ users' = got
            /\ \E sorted \in Orders(got) :
                 output' = Append(output,
                    Listed(got, UserHeader,
                           [i \in 1..Len(sorted) |-> UserRow(sorted[i])], JSON))
            /\ resp' = OkResponse
            /\ pc' = "exited"
            /\ exitCode' = 0
       \/ \E f \in AuthFailures :
            /\ resp' = f.rsp
            /\ Bail(f.err, JSON)
            /\ UNCHANGED users
    /\ UNCHANGED <<tokens, Config, configWrites>>
    /\ ActionFrame

listTokens ==
    /\ pc = "action"
    /\ cmd = "listTokens"
    /\ calls' = Append(calls, Request("GET", <<"user", "me", "token">>))
    /\ \/ \E got \in TokenLists :
            /\ tokens' = got
            /\ \E sorted \in Orders(got) :
                 output' = Append(output,
                    Listed(got, TokenHeader,
                           [i \in 1..Len(sorted) |-> TokenRow(sorted[i])], JSON))
            /\ resp' = OkResponse
            /\ pc' = "exited"
            /\ exitCode' = 0
       \/ \E f \in AuthFailures :
            /\ resp' = f.rsp
            /\ Bail(f.err, JSON)
            /\ UNCHANGED tokens
    /\ UNCHANGED <<users, Config, configWrites>>
    /\ ActionFrame

\* rackDelete: DeleteRack, and Bail when it failed
rackDelete ==
    /\ pc = "action"
    /\ cmd = "rackDelete"
    /\ \E rsp \in EmptyResponses :
         /\ calls' = calls \o Attempts(Request("DELETE", <<"rack", GRackUUID>>), rsp)
         /\ resp' = rsp
         /\ IF isHTTPResOk(rsp) # NoErr
            THEN Bail(isHTTPResOk(rsp), JSON)
            ELSE /\ pc' = "exited"
                 /\ exitCode' = 0
                 /\ UNCHANGED output
    /\ UNCHANGED tableVars
    /\ UNCHANGED <<Config, configWrites>>
    /\ ActionFrame

SessionMissingNever(session) == FALSE

\* Login: the test on the session data of the client after api.Login
SessionMissing(session) == session = ""

\* the Action of Login: api.Login, the session test, the copy into
\* util.Config and SerializeToFile, whose failure is passed over in silence
Login ==
    /\ pc = "action"
    /\ cmd = "Login"
    /\ calls' = Append(calls, Request("POST", <<"login">>))
    /\ \/ \E f \in AuthFailures :
            /\ resp' = f.rsp
            /\ Bail(f.err, JSON)
            /\ UNCHANGED <<Config, configWrites>>
       \/ \E session \in {"", "sess1"} :
            /\ resp' = OkResponse
            /\ IF SessionMissing(session)
               THEN /\ Bail(ErrNoSessionData, JSON)
                    /\ UNCHANGED <<Config, configWrites>>
               ELSE /\ Config' = [API |-> "https://conch.joyent.us", Session |-> session]
                    /\ pc' = "exited"
                    /\ exitCode' = 0
                    /\ \/ /\ configWrites' = configWrites + 1
                          /\ output' = Append(output,
                                [kind |-> "result", fmt |-> "plain",
                                 message |-> <<"Success. Config written to ", "path">>])
                       \/ UNCHANGED <<configWrites, output>>
    /\ UNCHANGED tableVars
    /\ ActionFrame

(***************************************************************************)
(* The tester's initFlags: the level of the logger.                        *)
(***************************************************************************)
LogLevel(v) ==
    IF v.trace THEN "TraceLevel"
    ELSE IF v.debug THEN "DebugLevel"
    ELSE IF v.verbose THEN "InfoLevel"
    ELSE "WarnLevel"

initFlags ==
    /\ pc = "start"
    /\ cmd' = "initFlags"
    /\ viper' \in [trace : BOOLEAN, debug : BOOLEAN, verbose : BOOLEAN]
    /\ logLevel' = LogLevel(viper')
    /\ pc' = "returned"
    /\ UNCHANGED <<exitCode, output, calls>>
    /\ UNCHANGED cfgVars
    /\ UNCHANGED loginVars
    /\ UNCHANGED roleVars
    /\ UNCHANGED importVars
    /\ UNCHANGED <<displayVars, tableVars, Config, magicVars, lateVars>>

(***************************************************************************)
(* util.MagicWorkspaceID and util.MagicRackID, each called once.           *)
(***************************************************************************)
Magic(name, what, request) ==
    /\ pc = "start"
    /\ cmd' = name
    /\ \E str \in WatArgs, rsp \in EntryResponses :
         LET m == MagicID(str, rsp, what) IN
         /\ wat' = str
         /\ calls' = IF m.called THEN Append(calls, request) ELSE calls
         /\ resp' = IF m.called THEN rsp ELSE resp
         /\ entries' = IF m.called /\ rsp.kind = "ok" THEN rsp.body ELSE entries
         /\ IF m.panic
            THEN /\ pc' = "exited"
                 /\ exitCode' = 2
                 /\ UNCHANGED <<ret, err>>
            ELSE /\ pc' = "returned"
                 /\ ret' = [kind |-> "uuid", value |-> m.id]
                 /\ err' = m.err
                 /\ UNCHANGED exitCode
    /\ UNCHANGED <<output, arg, r>>
    /\ UNCHANGED cfgVars
    /\ UNCHANGED loginVars
    /\ UNCHANGED importVars
    /\ UNCHANGED <<displayVars, tableVars, Config, flagVars, lateVars>>

MagicWorkspaceID == Magic("MagicWorkspaceID", "workspace", Request("GET", <<"workspace">>))

MagicRackID ==
    Magic("MagicRackID", "rack", Request("GET", <<"workspace", "ws1", "rack">>))

(***************************************************************************)
(* util.IsPasswordSane, called once, and                                   *)
(* util.InteractiveForcePasswordChange.                                    *)
(***************************************************************************)
\* strings.EqualFold on the characters of the model: equality under case
\* folding
Fold(c) == CASE c = "A" -> "a" [] c = "B" -> "b" [] OTHER -> c
EqualFold(s, t) ==
    /\ Len(s) = Len(t)
    /\ \A i \in 1..Len(s) : Fold(s[i]) = Fold(t[i])

IsPasswordSane(pw, profile) ==
    IF Len(pw) < MinPasswordLength
    THEN NewError("length must be >= 12")
    ELSE IF ~profile.nil /\ EqualFold(pw, profile.User)
    THEN NewError("password cannot match user name")
    ELSE NoErr

\* the profiles IsPasswordSane is handed: none, or one of a logged-in user,
\* whose user name is a name or the email address of the account
PwProfiles ==
    {NilProfile} \cup
    { [nil |-> FALSE, JWT |-> "jwt1", Token |-> "", User |-> u] :
        u \in {Pad(<<"a", "b">>, MinPasswordLength), Email} }

CallIsPasswordSane ==
    /\ pc = "start"
    /\ cmd' = "IsPasswordSane"
    /\ password' \in Passwords
    /\ ActiveProfile' \in PwProfiles
    /\ email' = Email
    /\ err' = IsPasswordSane(password', ActiveProfile')
    /\ pc' = "returned"
    /\ UNCHANGED <<exitCode, output, calls, entered>>
    /\ UNCHANGED cfgVars
    /\ UNCHANGED <<API, configWrites, build, version, sem, gate>>
    /\ UNCHANGED <<arg, resp, r, ret>>
    /\ UNCHANGED importVars
    /\ UNCHANGED <<displayVars, tableVars, Config, flagVars, magicVars, adminVars>>

PwFrame ==
    /\ UNCHANGED <<cmd, email>>
    /\ UNCHANGED cfgVars
    /\ UNCHANGED <<build, version, sem, gate>>
    /\ UNCHANGED <<arg, r, ret, err>>
    /\ UNCHANGED importVars
    /\ UNCHANGED <<displayVars, tableVars, Config, flagVars, magicVars, adminVars>>

\* InteractiveForcePasswordChange up to the loop: the rules are printed.
\* Without a profile the client was built with the config ignored.
InteractiveForcePasswordChange ==
    /\ pc = "start"
    /\ cmd' = "InteractiveForcePasswordChange"
    /\ JSON' \in BOOLEAN
    /\ IgnoreConfig' \in BOOLEAN
    /\ ActiveProfile' \in PwProfiles
    /\ ActiveProfile'.nil => IgnoreConfig'
    /\ API' = NewClient(IgnoreConfig', "", ActiveProfile')
    /\ email' = Email
    /\ output' = Append(output,
          [kind |-> "rules", fmt |-> "plain",
           message |-> <<"You must change your password to continue.",
                         "The new password must:",
                         "  * Be at least 12 characters long",
                         "  * Cannot match the user name or email address on the account">>])
    /\ pc' = "prompt"
    /\ UNCHANGED <<exitCode, calls, configWrites, password, entered>>
    /\ UNCHANGED <<Token, FlagsDisableApiVersionCheck>>
    /\ UNCHANGED <<build, version, sem, gate>>
    /\ UNCHANGED roleVars
    /\ UNCHANGED importVars
    /\ UNCHANGED <<displayVars, tableVars, Config, flagVars, magicVars, adminVars>>

\* one turn of the loop: prompt.Password fails, or the string typed is
\* handed to IsPasswordSane and either printed with its error or kept.  The
\* strings typed: a short one, the user name in another case, the email
\* address of the account, and one that is neither.
PromptPassword ==
    /\ pc = "prompt"
    /\ Len(entered) < MaxPrompts
    /\ \/ /\ Bail(NewError("EOF"), JSON)
          /\ UNCHANGED <<entered, password>>
       \/ \E s \in { Pad(<<"a", "b">>, MinPasswordLength - 1),
                    Pad(<<"A", "b">>, MinPasswordLength), Email,
                    Pad(<<"b", "b">>, MinPasswordLength + 1) } :
            /\ entered' = Append(entered, s)
            /\ IF IsPasswordSane(s, ActiveProfile) # NoErr
               THEN /\ output' = Append(output,
                          [kind |-> "rejected", fmt |-> "plain",
                           message |-> IsPasswordSane(s, ActiveProfile).msg])
                    /\ pc' = "prompt"
                    /\ UNCHANGED <<password, exitCode>>
               ELSE /\ password' = s
                    /\ pc' = "ChangeMyPassword"
                    /\ UNCHANGED <<output, exitCode>>
    /\ UNCHANGED <<calls, resp, ActiveProfile, API, configWrites>>
    /\ PwFrame

\* API.ChangeMyPassword(password, false), and Bail when it failed
ChangeMyPassword ==
    /\ pc = "ChangeMyPassword"
    /\ \/ \E f \in AuthFailures :
            /\ calls' = calls \o Attempts([verb |-> "POST", path |-> <<"user", "me", "password">>,
                                           body |-> [password |-> password]], f.rsp)
            /\ resp' = f.rsp
            /\ Bail(f.err, JSON)
       \/ /\ calls' = calls \o Attempts([verb |-> "POST", path |-> <<"user", "me", "password">>,
                                         body |-> [password |-> password]], OkResponse)
          /\ resp' = OkResponse
          /\ pc' = "Login"
          /\ UNCHANGED <<output, exitCode>>
    /\ UNCHANGED <<ActiveProfile, API, configWrites, password, entered>>
    /\ PwFrame

\* API.Login(ActiveProfile.User, password): the argument dereferences the
\* profile; Bail when the login failed
LoginNewPassword ==
    /\ pc = "Login"
    /\ cmd = "InteractiveForcePasswordChange"
    /\ IF ActiveProfile.nil
       THEN /\ pc' = "exited"
            /\ exitCode' = 2
            /\ UNCHANGED <<output, calls, resp, API>>
       ELSE \/ \E f \in AuthFailures :
                 /\ calls' = calls \o Attempts([verb |-> "POST", path |-> <<"login">>,
                                 body |-> [user |-> ActiveProfile.User, password |-> password]],
                                 f.rsp)
                 /\ resp' = f.rsp
                 /\ Bail(f.err, JSON)
                 /\ UNCHANGED API
            \/ /\ calls' = calls \o Attempts([verb |-> "POST", path |-> <<"login">>,
                                 body |-> [user |-> ActiveProfile.User, password |-> password]],
                                 OkResponse)
               /\ resp' = OkResponse
               /\ API' = [API EXCEPT !.JWT = "jwt2"]
               /\ pc' = "copy"
               /\ UNCHANGED <<output, exitCode>>
    /\ UNCHANGED <<ActiveProfile, configWrites, password, entered>>
    /\ PwFrame

\* ActiveProfile.JWT = API.JWT
CopyJWT ==
    /\ pc = "copy"
    /\ ActiveProfile' = [ActiveProfile EXCEPT !.JWT = API.JWT]
    /\ pc' = "WriteConfigForce"
    /\ UNCHANGED <<exitCode, output, calls, resp, API, configWrites, password, entered>>
    /\ PwFrame

WriteConfigForceHonoursIgnore(ic) == ic

\* util.WriteConfigForce: whether it returns without serializing
WriteConfigForceSkips(ic) == FALSE

\* util.WriteConfigForce: SerializeToFile, and Bail when it failed
WriteConfigForce ==
    /\ pc = "WriteConfigForce"
    /\ IF WriteConfigForceSkips(IgnoreConfig)
       THEN /\ pc' = "returned"
            /\ UNCHANGED <<exitCode, output, configWrites>>
       ELSE \/ /\ configWrites' = configWrites + 1
               /\ pc' = "returned"
               /\ UNCHANGED <<exitCode, output>>
            \/ /\ Bail(NewError("cannot write config"), JSON)
               /\ UNCHANGED configWrites
    /\ UNCHANGED <<calls, resp, ActiveProfile, API, password, entered>>
    /\ PwFrame

(***************************************************************************)
(* The Actions of the admin user commands and of rackUpdate.               *)
(***************************************************************************)
UserEmail == "user@example.com"

AdminFrame ==
    /\ UNCHANGED cmd
    /\ UNCHANGED cfgVars
    /\ UNCHANGED loginVars
    /\ UNCHANGED <<arg, r, ret, err>>
    /\ UNCHANGED importVars
    /\ UNCHANGED <<displayVars, tableVars, Config, flagVars, magicVars, password, email, entered>>

RevokeChoiceAuthFirst(all, auth, tok) ==
    IF auth THEN "RevokeUserLogins"
    ELSE IF all THEN "RevokeUserTokensAndLogins"
    ELSE IF tok THEN "RevokeUserTokens"
    ELSE "none"

\* revokeTokens: the accessor the Action calls
RevokeChoice(all, auth, tok) ==
    IF all THEN "RevokeUserTokensAndLogins"
    ELSE IF auth THEN "RevokeUserLogins"
    ELSE IF tok THEN "RevokeUserTokens"
    ELSE "none"

\* the Action of revokeTokens; app.Spec demands one of --auth-only,
\* --tokens-only and --all.  A line is printed unless --json is set.
revokeTokens ==
    /\ pc = "action"
    /\ cmd = "revokeTokens"
    /\ \E force \in BOOLEAN,
          f \in { g \in [auth : BOOLEAN, tokens : BOOLEAN, all : BOOLEAN] :
                    g.auth \/ g.tokens \/ g.all } :
         LET accessor == RevokeChoice(f.all, f.auth, f.tokens)
             req == [verb |-> "POST", path |-> <<"user", UserEmail, "revoke">>,
                     accessor |-> accessor]
             message ==
                 CASE accessor = "RevokeUserTokensAndLogins" ->
                          <<"Login and API tokens revoked for ", UserEmail>>
                   [] accessor = "RevokeUserLogins" ->
                          <<"Login tokens revoked for ", UserEmail>>
                   [] OTHER -> <<"API tokens revoked for ", UserEmail>>
         IN
         /\ forceOpt' = force
         /\ revokeAuth' = f.auth
         /\ tokenAuth' = f.tokens
         /\ allAuth' = f.all
         /\ IF ~force \/ accessor = "none"
            THEN /\ pc' = "exited"
                 /\ exitCode' = 0
                 /\ UNCHANGED <<calls, resp, output>>
            ELSE /\ \/ \E fail \in AuthFailures :
                         /\ calls' = calls \o Attempts(req, fail.rsp)
                         /\ resp' = fail.rsp
                         /\ Bail(fail.err, JSON)
                    \/ /\ calls' = calls \o Attempts(req, OkResponse)
                       /\ resp' = OkResponse
                       /\ output' = IF JSON THEN output
                                     ELSE Append(output, [kind |-> "result", fmt |-> "plain",
                                                          message |-> message])
                       /\ pc' = "exited"
                       /\ exitCode' = 0
    /\ UNCHANGED <<clearTokensOpt, emailOpt, nameOpt, user>>
    /\ UNCHANGED <<fetched, rack, dcIDOpt, roleIDOpt, snOpt, assetTagOpt>>
    /\ AdminFrame

deleteUser ==
    /\ pc = "action"
    /\ cmd = "deleteUser"
    /\ \E force \in BOOLEAN, clear \in BOOLEAN :
         LET req == [verb |-> "DELETE", path |-> <<"user", UserEmail>>,
                     clear_tokens |-> clear] IN
         /\ forceOpt' = force
         /\ clearTokensOpt' = clear
         /\ IF ~force
            THEN /\ pc' = "exited"
                 /\ exitCode' = 0
                 /\ UNCHANGED <<calls, resp, output>>
            ELSE /\ \/ \E fail \in AuthFailures :
                         /\ calls' = calls \o Attempts(req, fail.rsp)
                         /\ resp' = fail.rsp
                         /\ Bail(fail.err, JSON)
                    \/ /\ calls' = calls \o Attempts(req, OkResponse)
                       /\ resp' = OkResponse
                       /\ output' = IF JSON THEN output
                                     ELSE Append(output, [kind |-> "result", fmt |-> "plain",
                                            message |-> <<"User ", UserEmail, " deleted.">>])
                       /\ pc' = "exited"
                       /\ exitCode' = 0
    /\ UNCHANGED <<revokeAuth, tokenAuth, allAuth, emailOpt, nameOpt, user>>
    /\ UNCHANGED <<fetched, rack, dcIDOpt, roleIDOpt, snOpt, assetTagOpt>>
    /\ AdminFrame

UpdateUserArgsAdminOff(c, u, e, n) ==
    CASE c = "updateUser" -> [email |-> e, name |-> n, is_admin |-> FALSE]
      [] c = "promoteUser" -> [email |-> u.Email, name |-> u.Name, is_admin |-> TRUE]
      [] OTHER -> [email |-> u.Email, name |-> u.Name, is_admin |-> FALSE]

\* the email, name and admin status each command hands to util.API.UpdateUser
UpdateUserArgs(c, u, e, n) ==
    CASE c = "updateUser" -> [email |-> e, name |-> n, is_admin |-> u.IsAdmin]
      [] c = "promoteUser" -> [email |-> u.Email, name |-> u.Name, is_admin |-> TRUE]
      [] OTHER -> [email |-> u.Email, name |-> u.Name, is_admin |-> FALSE]

\* updateUser, promoteUser, demoteUser up to the return of GetUserByEmail
GetUserByEmail ==
    /\ pc = "action"
    /\ cmd \in {"updateUser", "promoteUser", "demoteUser"}
    /\ IF cmd = "updateUser"
       THEN emailOpt' \in {"", "new@example.com"} /\ nameOpt' \in {"", "New Name"}
       ELSE UNCHANGED <<emailOpt, nameOpt>>
    /\ calls' = Append(calls, Request("GET", <<"user", UserEmail>>))
    /\ \/ \E fail \in AuthFailures :
            /\ resp' = fail.rsp
            /\ Bail(fail.err, JSON)
            /\ UNCHANGED user
       \/ /\ \E a \in BOOLEAN :
               user' = [ID |-> "u1", Email |-> UserEmail, Name |-> "User One",
                        IsAdmin |-> a]
          /\ resp' = OkResponse
          /\ pc' = "UpdateUser"
          /\ UNCHANGED <<output, exitCode>>
    /\ UNCHANGED <<forceOpt, revokeAuth, tokenAuth, allAuth, clearTokensOpt>>
    /\ UNCHANGED <<fetched, rack, dcIDOpt, roleIDOpt, snOpt, assetTagOpt>>
    /\ AdminFrame

\* util.API.UpdateUser and the line printed after it
UpdateUser ==
    /\ pc = "UpdateUser"
    /\ LET req == [verb |-> "POST", path |-> <<"user", user.ID>>,
                   body |-> UpdateUserArgs(cmd, user, emailOpt, nameOpt)]
           message ==
               CASE cmd = "updateUser" -> <<"User ", UserEmail, " updated">>
                 [] cmd = "promoteUser" ->
                        <<"User ", UserEmail, " promoted to system admin">>
                 [] OTHER -> <<"User ", UserEmail, " demoted to regular user">>
       IN
       \/ \E fail \in AuthFailures :
            /\ calls' = calls \o Attempts(req, fail.rsp)
            /\ resp' = fail.rsp
            /\ Bail(fail.err, JSON)
       \/ /\ calls' = calls \o Attempts(req, OkResponse)
          /\ resp' = OkResponse
          /\ output' = IF JSON THEN output
                        ELSE Append(output, [kind |-> "result", fmt |-> "plain",
                                             message |-> message])
          /\ pc' = "exited"
          /\ exitCode' = 0
    /\ UNCHANGED adminVars
    /\ AdminFrame

\* uuid.FromString: the UUID a string parses to, in its canonical lower
\* case, or an error
FromString(str) ==
    LET low == [i \in 1..Len(str) |-> Fold(str[i])] IN
    IF IsUUID(low) THEN [id |-> low, err |-> NoErr]
    ELSE [id |-> NilUUID, err |-> NewError("uuid: incorrect UUID format")]

OverwriteBlanks(rk, dc, role, name, sn, tag) ==
    [rk EXCEPT !.DatacenterRoomID = IF dc # <<>> THEN FromString(dc).id ELSE @,
               !.RoleID = IF role # <<>> THEN FromString(role).id ELSE @,
               !.Name = name,
               !.SerialNumber = IF sn # "" THEN sn ELSE @,
               !.AssetTag = IF tag # "" THEN tag ELSE @]

\* rackUpdate: r after the five tests on the options
Overwrite(rk, dc, role, name, sn, tag) ==
    [rk EXCEPT !.DatacenterRoomID = IF dc # <<>> THEN FromString(dc).id ELSE @,
               !.RoleID = IF role # <<>> THEN FromString(role).id ELSE @,
               !.Name = IF name # "" THEN name ELSE @,
               !.SerialNumber = IF sn # "" THEN sn ELSE @,
               !.AssetTag = IF tag # "" THEN tag ELSE @]

\* rackUpdate up to SaveRack: GetRack, then the options in their order; the
\* first option that is no UUID ends the command
rackUpdate ==
    /\ pc = "action"
    /\ cmd = "rackUpdate"
    /\ dcIDOpt' \in { <<>>, <<"a", "b", "-", "2">>, <<"A", "b", "-", "2">>, <<"x">> }
    /\ roleIDOpt' \in { <<>>, <<"a", "b", "-", "2">>, <<"A", "b", "-", "2">>, <<"x">> }
    /\ nameOpt' \in {"", "New Name"}
    /\ snOpt' \in {"", "sn2"}
    /\ assetTagOpt' \in {"", "tag2"}
    /\ calls' = Append(calls, Request("GET", <<"rack", GRackUUID>>))
    /\ \/ \E rsp \in HTTPFailures :
            /\ resp' = rsp
            /\ Bail(isHTTPResOk(rsp), JSON)
            /\ UNCHANGED <<fetched, rack>>
       \/ /\ \E ph \in {"production", "installation"} :
               fetched' = [ID |-> GRackUUID, DatacenterRoomID |-> <<"a", "a", "-", "1">>,
                           RoleID |-> <<"b", "b", "-", "3">>, Name |-> "Rack A",
                           SerialNumber |-> "sn1", AssetTag |-> "tag1", Phase |-> ph,
                           Created |-> 1, Updated |-> 2]
          /\ resp' = OkResponse
          /\ IF dcIDOpt' # <<>> /\ FromString(dcIDOpt').err # NoErr
             THEN /\ rack' = fetched'
                  /\ Bail(FromString(dcIDOpt').err, JSON)
             ELSE IF roleIDOpt' # <<>> /\ FromString(roleIDOpt').err # NoErr
             THEN /\ rack' = Overwrite(fetched', dcIDOpt', <<>>, "", "", "")
                  /\ Bail(FromString(roleIDOpt').err, JSON)
             ELSE /\ rack' = Overwrite(fetched', dcIDOpt', roleIDOpt', nameOpt',
                                       snOpt', assetTagOpt')
                  /\ pc' = "SaveRack"
                  /\ UNCHANGED <<output, exitCode>>
    /\ UNCHANGED <<forceOpt, revokeAuth, tokenAuth, allAuth, clearTokensOpt>>
    /\ UNCHANGED <<emailOpt, user>>
    /\ AdminFrame

\* util.API.SaveRack(&r) and the rack printed after it
SaveRack ==
    /\ pc = "SaveRack"
    /\ LET req == [verb |-> "POST", path |-> <<"rack", rack.ID>>, body |-> rack] IN
       \/ \E rsp \in HTTPFailures :
            /\ calls' = calls \o Attempts(req, rsp)
            /\ resp' = rsp
            /\ Bail(isHTTPResOk(rsp), JSON)
       \/ /\ calls' = calls \o Attempts(req, OkResponse)
          /\ resp' = OkResponse
          /\ output' = Append(output,
                IF JSON THEN [kind |-> "data", fmt |-> "json", value |-> rack]
                ELSE [kind |-> "rack", fmt |-> "plain", value |-> rack])
          /\ pc' = "exited"
          /\ exitCode' = 0
    /\ UNCHANGED adminVars
    /\ AdminFrame

Next ==
    \/ StartCommand
    \/ BuildAPIGetVersion
    \/ BuildAPIGate
    \/ VerifyToken
    \/ VerifyJwtLogin
    \/ CommandAction
    \/ GetGlobalRackRoles
    \/ GetGlobalRackRole
    \/ SaveGlobalRackRole
    \/ DeleteGlobalRackRole
    \/ ImportStart
    \/ ImportGetRack
    \/ ImportGetRackLayout
    \/ ImportGetHardwareProducts
    \/ ImportDelete
    \/ ImportSave
    \/ DisplayDevicesStart
    \/ DisplayFill
    \/ DisplayRender
    \/ StartAction
    \/ listAllUsers
    \/ listTokens
    \/ rackDelete
    \/ Login
    \/ initFlags
    \/ MagicWorkspaceID
    \/ MagicRackID
    \/ CallIsPasswordSane
    \/ InteractiveForcePasswordChange
    \/ PromptPassword
    \/ ChangeMyPassword
    \/ LoginNewPassword
    \/ CopyJWT
    \/ WriteConfigForce
    \/ revokeTokens
    \/ deleteUser
    \/ GetUserByEmail
    \/ UpdateUser
    \/ rackUpdate
    \/ SaveRack

Spec == Init /\ [][Next]_vars

(***************************************************************************)
(* Properties of the version negotiation.                                  *)
(***************************************************************************)
SemOf(c) == [ok |-> TRUE, Major |-> c[1], Minor |-> c[2], Patch |-> c[3]]
CoreOf(tag) == CHOOSE c \in Cores : Core(c) = tag
Less3(a, b) ==
    \/ a[1] < b[1]
    \/ a[1] = b[1] /\ a[2] < b[2]
    \/ a[1] = b[1] /\ a[2] = b[2] /\ a[3] < b[3]
Accepted(c, mn, mx) == c[1] = mn[1] /\ ~Less3(c, mn) /\ Less3(c, mx)
GateApplied == gate \notin {"none", "disabled"} /\ version # <<>>
ExampleTag == <<"v", "2", ".", "9", "9", ".", "1", "0", "-", "a", "b", "c", "d", "e",
                "-", "d", "i", "r", "t", "y">>
SpecBuild == build.min = Core(<<2, 0, 0>>) /\ build.max = Core(<<3, 0, 0>>)
BailedOnce == pc = "exited" /\ exitCode = 1 /\ Len(output) = 1
              /\ output[1].kind = "error"

C3_VersionGate ==
    (FlagsDisableApiVersionCheck = "0" /\ gate # "none" /\ version # <<>>) =>
        /\ \A n \in 0..MaxV, c \in Cores, x \in Suffixes :
              version = Vs(n) \o Core(c) \o x =>
                 IF Accepted(c, CoreOf(build.min), CoreOf(build.max))
                 THEN pc = "built" /\ gate = "ok" /\ exitCode = -1
                 ELSE BailedOnce /\ gate \in {"major", "range"}
        /\ SpecBuild =>
              /\ version = Core(<<1, 9, 9>>) => BailedOnce
              /\ version = Core(<<2, 5, 0>>) => pc = "built"
              /\ version = Core(<<3, 0, 0>>) => BailedOnce
              /\ version = Core(<<2, 99, 99>>) => pc = "built"

C3_Witness ==
    /\ FlagsDisableApiVersionCheck = "0"
    /\ build.max = Core(<<2, 99, 10>>)
    /\ version = Core(<<2, 99, 10>>)
    /\ gate = "range"
    /\ BailedOnce

C5_GateBeforeBusinessLogic ==
    (cmd = "command") =>
        /\ \A i \in 1..Len(calls) :
              calls[i] # Request("GET", <<"version">>) =>
                 i > 1 /\ calls[1] = Request("GET", <<"version">>)
                       /\ gate \in {"ok", "disabled"}
        /\ configWrites > 0 => gate \in {"ok", "disabled"}
        /\ gate \in {"major", "range"} =>
              BailedOnce /\ Len(calls) = 1 /\ configWrites = 0

C5_Witness ==
    /\ cmd = "command"
    /\ gate = "ok"
    /\ configWrites = 1
    /\ Len(calls) = 3
    /\ pc = "exited"
    /\ exitCode = 0

(***************************************************************************)
(* Properties of the accessors.                                            *)
(***************************************************************************)
Accessors == {"GetGlobalRackRoles", "GetGlobalRackRole", "SaveGlobalRackRole",
              "DeleteGlobalRackRole"}
StructuredError == resp.kind = "apierr" /\ resp.msg # ""

\* C1: an accessor whose response is non-2xx with a structured error body
\* returns an error whose message is the body's error message, and the
\* returned entity is the zero value (an empty, non-nil list for a list).
C1_ErrorBody ==
    (cmd \in Accessors /\ StructuredError) =>
        /\ err.id = "new"
        /\ err.msg = resp.msg
        /\ cmd = "GetGlobalRackRoles" =>
              ret.value.items = <<>> /\ ~ret.value.nil
        /\ cmd = "GetGlobalRackRole" => ret.value = ZeroRole

C1_Witness ==
    /\ cmd = "GetGlobalRackRoles"
    /\ resp.kind = "apierr"
    /\ resp.status = 400
    /\ resp.msg = "totally broken"
    /\ err.msg = "totally broken"

\* C6: SaveGlobalRackRole issues exactly one request: a POST to /rack_role
\* with a body without id when the entity's UUID is zero, and a POST to
\* /rack_role/<uuid> otherwise.
C6_CreateOrUpdate ==
    (cmd = "SaveGlobalRackRole" /\ arg.Name # "" /\ arg.RackSize # 0) =>
        /\ Len(calls) = 1
        /\ calls[1].verb = "POST"
        /\ IF arg.ID = ZeroUUID
           THEN /\ calls[1].path = <<"rack_role">>
                /\ "id" \notin DOMAIN calls[1].body
           ELSE calls[1].path = <<"rack_role", arg.ID>>

C6_Witness ==
    /\ cmd = "SaveGlobalRackRole"
    /\ arg.ID = ZeroUUID
    /\ Len(calls) = 1
    /\ calls[1].path = <<"rack_role">>
    /\ err = NoErr

\* C7: SaveGlobalRackRole with an empty name or a rack size of 0 returns
\* ErrBadInput, issues no request and leaves the entity as it was passed.
C7_BadInput ==
    (cmd = "SaveGlobalRackRole" /\ (arg.Name = "" \/ arg.RackSize = 0)) =>
        /\ err = ErrBadInput
        /\ calls = <<>>
        /\ r = arg

C7_Witness ==
    /\ cmd = "SaveGlobalRackRole"
    /\ arg.Name = "role1"
    /\ arg.RackSize = 0
    /\ err = ErrBadInput

(***************************************************************************)
(* Properties of the rack-layout import.                                   *)
(***************************************************************************)
Importing == cmd = "rackImportLayout"
SaveCalls == { i \in 1..Len(calls) : calls[i].verb = "POST" }
DeleteCalls == { i \in 1..Len(calls) : calls[i].verb = "DELETE" }
Names == { serverProducts[i].Name : i \in 1..Len(serverProducts) }
Aliases == { serverProducts[i].Alias : i \in 1..Len(serverProducts) }
IDs == { serverProducts[i].ID : i \in 1..Len(serverProducts) }
UnknownName(l) ==
    l.ProductID = ZeroUUID /\ l.ProductName # "" /\ l.ProductName \notin Names
Invalid(l) ==
    \/ UnknownName(l)
    \/ l.ProductID = ZeroUUID /\ l.ProductName = "" /\ l.ProductAlias \notin Aliases
    \/ l.ProductID # ZeroUUID /\ l.ProductID \notin IDs
Failed == pc = "exited" /\ exitCode = 1 /\ Len(output) = 1 /\ output[1].kind = "error"

\* C8: when a slot of the imported layout has no product UUID and names a
\* product the server's list does not hold, no SaveRackLayoutSlot call is
\* ever issued and the command ends in failure, wherever the slot stands.
C8_UnknownProductName ==
    (Importing /\ \E i \in 1..Len(importedLayout) : UnknownName(importedLayout[i])) =>
        /\ SaveCalls = {}
        /\ pc = "exited" => Failed

C8_Witness ==
    /\ Importing
    /\ Len(importedLayout) = 2
    /\ ~Invalid(importedLayout[1])
    /\ UnknownName(importedLayout[2])
    /\ importedLayout[2].ProductAlias = "alias1"
    /\ Aliases # {}
    /\ Len(calls) = 3
    /\ Len(finalLayout) = 1
    /\ Failed

\* C9: when a slot of the imported layout fails the validation, neither a
\* DeleteRackLayoutSlot nor a SaveRackLayoutSlot call is issued and the
\* command ends in failure, also with --overwrite on a rack with a layout.
C9_NoChangeOnInvalid ==
    (Importing /\ \E i \in 1..Len(importedLayout) : Invalid(importedLayout[i])) =>
        /\ SaveCalls = {}
        /\ DeleteCalls = {}
        /\ pc = "exited" => Failed

C9_Witness ==
    /\ Importing
    /\ overwriteOpt
    /\ Len(existingLayout) > 0
    /\ \E i \in 1..Len(importedLayout) :
          importedLayout[i].ProductID = "prodX" /\ "prodX" \notin IDs
    /\ Len(calls) = 3
    /\ Failed

\* C10: the import onto a rack that has a layout fails without --overwrite
\* before any delete or save call; a delete call is issued only with
\* --overwrite.
C10_OverwriteNeeded ==
    Importing =>
        /\ (Len(existingLayout) > 0 /\ ~overwriteOpt) =>
              /\ Failed
              /\ output[1].message = <<"rack already has a layout. Use --overwrite to overwrite">>
              /\ SaveCalls = {}
              /\ DeleteCalls = {}
        /\ DeleteCalls # {} => overwriteOpt

C10_Witness ==
    /\ Importing
    /\ Len(existingLayout) = 1
    /\ ~overwriteOpt
    /\ Len(importedLayout) > 0
    /\ Len(calls) = 2
    /\ Failed

\* the slot the server holds after the k-th save of the final layout
SavedSlot(k) ==
    [ID |-> NewSlotID(k), RackID |-> finalLayout[k].RackID,
     ProductID |-> finalLayout[k].ProductID, RUStart |-> finalLayout[k].RUStart]
ActFailed == Importing /\ pc = "exited" /\ exitCode = 1
             /\ DeleteCalls \cup SaveCalls # {}

\* C11: the import is not atomic: when a delete or a save fails, the process
\* exits with an error, the slots deleted before stay deleted and the slots
\* saved before stay saved on the server, and no request undoes them: the
\* requests are the three reads, the deletes of existing slots in order and
\* the saves of the validated slots in order, the failed one being the last.
C11_NotAtomic ==
    ActFailed =>
        LET nd == Cardinality(DeleteCalls)
            ns == Cardinality(SaveCalls)
            d == IF ns > 0 THEN nd ELSE nd - 1
            s == IF ns > 0 THEN ns - 1 ELSE 0
        IN /\ Failed
           /\ nd <= Len(existingLayout)
           /\ ns <= Len(finalLayout)
           /\ serverLayout = SubSeq(existingLayout, d + 1, Len(existingLayout))
                                \o [k \in 1..s |-> SavedSlot(k)]
           /\ Len(calls) = 3 + nd + ns
           /\ \A j \in 1..nd :
                 calls[3 + j] = Request("DELETE", <<"layout", existingLayout[j].ID>>)
           /\ \A k \in 1..ns :
                 /\ calls[3 + nd + k].verb = "POST"
                 /\ calls[3 + nd + k].body = finalLayout[k]

C11_Witness ==
    /\ ActFailed
    /\ Len(existingLayout) = 2
    /\ Cardinality(DeleteCalls) = 2
    /\ Cardinality(SaveCalls) = 2
    /\ serverLayout = <<SavedSlot(1)>>
    /\ calls[7].verb = "POST"
    /\ resp = TransportFailure
    /\ output[1].message = <<"connection refused">>

(***************************************************************************)
(* Properties of the output formatter.                                     *)
(***************************************************************************)
Displayed == cmd = "DisplayDevices" /\ pc = "returned" /\ err = NoErr
CondensedKeys == {"id", "asset_tag", "created", "last_seen", "health", "graduated",
                  "validated", "phase"}

\* C12: DisplayDevices in JSON mode without full detail prints one array
\* with one element per device, in the order of the devices, each holding
\* exactly the eight condensed fields with the device's values and nothing
\* else: the location is left out also when the device carries one.
C12_CondensedJSON ==
    (Displayed /\ JSON /\ ~fullOutput) =>
        /\ Len(output) = 1
        /\ output[1].fmt = "json"
        /\ Len(output[1].value) = Len(devicesArg)
        /\ \A i \in 1..Len(devicesArg) :
              LET e == output[1].value[i]
                  d == devicesArg[i]
              IN /\ DOMAIN e = CondensedKeys
                 /\ e.id = d.ID /\ e.asset_tag = d.AssetTag /\ e.created = d.Created
                 /\ e.last_seen = d.LastSeen /\ e.health = d.Health
                 /\ e.graduated = d.Graduated /\ e.validated = d.Validated
                 /\ e.phase = d.Phase

C12_Witness ==
    /\ Displayed /\ JSON /\ ~fullOutput
    /\ Len(devicesArg) = 2
    /\ devicesArg[1].Location.Rack.Name = "rackA"
    /\ devicesArg[2].Location = NoLocation
    /\ output[1].value[1].id = "dev1"
    /\ output[1].value[2].id = "dev2"
    /\ "location" \notin DOMAIN output[1].value[1]

TableShown == pc \in {"returned", "exited"} /\ Len(output) = 1
              /\ output[1].kind = "table"
\* the cell of the row that shows the field of the entity
Cell(row, header, name) ==
    row[CHOOSE i \in 1..Len(header) : header[i] = name]
BlankWhenZero(rows, header, key, entity, field, name) ==
    \A i \in 1..Len(rows) :
       (Cell(rows[i], header, key[1]) = entity[key[2]] /\ entity[field] = 0) =>
           Cell(rows[i], header, name) = ""

\* C13: in table mode every zero timestamp of a rendered entity is a blank
\* cell and never a formatted zero date, in each timestamp column of the
\* device table (Created, Last Seen, Validated, Graduated), of the user
\* table (Created, Last Login) and of the token table (Created, Last Used).
C13_ZeroTimestampBlank ==
    TableShown =>
        LET t == output[1] IN
        /\ cmd = "DisplayDevices" =>
              \A i \in 1..Len(devicesArg) :
                 LET d == devicesArg[i] IN
                 /\ BlankWhenZero(t.rows, t.header, <<"ID", "ID">>, d, "Created", "Created")
                 /\ BlankWhenZero(t.rows, t.header, <<"ID", "ID">>, d, "LastSeen", "Last Seen")
                 /\ BlankWhenZero(t.rows, t.header, <<"ID", "ID">>, d, "Validated", "Validated")
                 /\ BlankWhenZero(t.rows, t.header, <<"ID", "ID">>, d, "Graduated", "Graduated")
        /\ cmd = "listAllUsers" =>
              \A i \in 1..Len(users) :
                 /\ BlankWhenZero(t.rows, t.header, <<"ID", "ID">>, users[i], "Created", "Created")
                 /\ BlankWhenZero(t.rows, t.header, <<"ID", "ID">>, users[i], "LastLogin", "Last Login")
        /\ cmd = "listTokens" =>
              \A i \in 1..Len(tokens) :
                 /\ BlankWhenZero(t.rows, t.header, <<"Name", "Name">>, tokens[i], "Created", "Created")
                 /\ BlankWhenZero(t.rows, t.header, <<"Name", "Name">>, tokens[i], "LastUsed", "Last Used")

(***************************************************************************)
(* Properties of the fatal error path.                                     *)
(***************************************************************************)
ErrLines == { i \in 1..Len(output) : output[i].kind = "error" }
Sentinels == {ErrBadInput, ErrNotAuthorized, ErrMalformedJWT, ErrLoginFailed}

\* C14: an error reported through Bail ends the process with exit code 1
\* after exactly one message, the last line printed: the JSON object with
\* error=true and the message in JSON mode, the plain message otherwise;
\* the exit code is 1 only through Bail, and a command that ends without
\* having met an error ends with 0.
C14_FatalPath ==
    /\ ErrLines # {} =>
          /\ pc = "exited" /\ exitCode = 1
          /\ ErrLines = {Len(output)}
          /\ output[Len(output)].fmt = IF JSON THEN "json" ELSE "plain"
          /\ output[Len(output)].message = BailMsg(output[Len(output)].of, Token)
    /\ exitCode = 1 => ErrLines # {}
    /\ (pc = "exited" /\ ErrLines = {} /\ exitCode # 2) => exitCode = 0

C14_Witness ==
    /\ cmd = "command"
    /\ JSON
    /\ Len(calls) = 3
    /\ exitCode = 1
    /\ output = <<[kind |-> "error", fmt |-> "json", message |-> <<"totally broken">>,
                   of |-> NewError("totally broken")]>>

\* C15: Bail prints ErrNotAuthorized as its text followed by the 'profile
\* relogin' hint, or by the 'API token might be incorrect or revoked' hint
\* when util.Token is set, and prints an error that is none of the four
\* sentinels as its own message, unchanged.
C15_AuthHint ==
    \A i \in ErrLines :
       LET l == output[i] IN
       /\ l.of = ErrNotAuthorized =>
             l.message = <<ErrNotAuthorized.msg,
                           IF Token # ""
                           THEN " -- The API token might be incorrect or revoked"
                           ELSE " -- Running 'profile relogin' might resolve this">>
       /\ l.of \notin Sentinels => l.message = <<l.of.msg>>

C15_Witness ==
    /\ cmd = "command"
    /\ Token = "tok1"
    /\ ErrLines = {1}
    /\ output[1].of = ErrNotAuthorized
    /\ output[1].message[2] = " -- The API token might be incorrect or revoked"

(***************************************************************************)
(* Properties of the error handling.                                       *)
(***************************************************************************)
Library == Accessors \cup {"DisplayDevices", "MagicWorkspaceID", "MagicRackID"}

\* C16: nothing is retried: no step issues more than one HTTP request, an
\* accessor called once has issued at most one, and once a call has failed
\* (API error or transport error) its request is the last one issued and
\* was issued once, no later step issues a request, and the command has
\* exited with code 1 (a library function has returned the error).
C16_NoRetry ==
    /\ [](/\ cmd \in Accessors => Len(calls) <= 1
          /\ HTTPFailed(resp) =>
                /\ Len(calls) >= 1
                /\ \A i \in 1..(Len(calls) - 1) : calls[i] # calls[Len(calls)]
                /\ IF cmd \in Library
                   THEN pc = "returned" /\ err # NoErr
                   ELSE pc = "exited" /\ exitCode = 1)
    /\ [][/\ Len(calls') <= Len(calls) + 1
          /\ HTTPFailed(resp) => calls' = calls]_vars

C16_Witness ==
    /\ cmd = "rackDelete"
    /\ resp = TransportFailure
    /\ calls = <<Request("DELETE", <<"rack", GRackUUID>>)>>
    /\ Failed

(***************************************************************************)
(* Properties of the credentials and of the config file.                   *)
(***************************************************************************)
JwtVerification == Request("POST", <<"refresh_token">>)
TokenVerification == Request("GET", <<"me">>)

\* C17: the config file is written only after a login or a JWT
\* verification that succeeded: BuildAPIAndVerifyLogin writes it once, with
\* the client's JWT copied into the active profile, after VerifyJwtLogin
\* returned without error, Login writes it after api.Login succeeded with
\* session data that is not empty, and an invocation whose login or
\* verification failed has not written it.  The forced password change
\* writes it after its login with the new password succeeded.
C17_ConfigWrites ==
    /\ configWrites > 0 => cmd \in {"command", "Login", "InteractiveForcePasswordChange"}
    /\ cmd = "InteractiveForcePasswordChange" =>
          /\ configWrites > 0 =>
                /\ configWrites = 1
                /\ Len(calls) = 2
                /\ calls[2].path = <<"login">>
                /\ resp = OkResponse
                /\ ActiveProfile.JWT = API.JWT
          /\ (pc = "exited" /\ exitCode # 0) => configWrites = 0
    /\ cmd = "command" =>
          /\ configWrites > 0 =>
                /\ configWrites = 1
                /\ Len(calls) >= 2
                /\ calls[2] = JwtVerification
                /\ Len(calls) = 2 => resp = OkResponse /\ pc = "verified"
                /\ ActiveProfile.JWT = API.JWT
                /\ API.JWT # ""
          /\ (pc = "exited" /\ exitCode # 0 /\ Len(calls) <= 2) => configWrites = 0
    /\ cmd = "Login" =>
          /\ configWrites > 0 =>
                /\ configWrites = 1
                /\ calls = <<Request("POST", <<"login">>)>>
                /\ resp = OkResponse
                /\ Config.Session # ""
                /\ exitCode = 0
          /\ (pc = "exited" /\ exitCode # 0) => configWrites = 0 /\ Config = NoConfig

C17_Witness ==
    /\ cmd = "Login"
    /\ configWrites = 1
    /\ Config.Session = "sess1"
    /\ Len(output) = 1
    /\ exitCode = 0

VerificationCalls ==
    { i \in 1..Len(calls) : calls[i] \in {JwtVerification, TokenVerification} }

C19_LogPrecedence ==
    (cmd = "initFlags") =>
        logLevel = IF viper.verbose THEN "InfoLevel"
                   ELSE IF viper.debug THEN "DebugLevel"
                   ELSE IF viper.trace THEN "TraceLevel"
                   ELSE "WarnLevel"

(***************************************************************************)
(* Properties of the resolution of names and short UUIDs.                  *)
(***************************************************************************)
MagicCalled == cmd \in {"MagicWorkspaceID", "MagicRackID"}
StartsWith(str, prefix) ==
    Len(str) >= Len(prefix) /\ SubSeq(str, 1, Len(prefix)) = prefix
\* the entries of the list whose name is the string or whose UUID starts
\* with the string and a hyphen
Named(str, list) ==
    { i \in 1..Len(list) :
        list[i].Name = str \/ StartsWith(list[i].ID, str \o <<"-">>) }
PlainArg == \A i \in 1..Len(wat) : wat[i] \notin {".", "("}

\* C20: MagicWorkspaceID and MagicRackID return a string that parses as a
\* UUID as it is, without a request; for another string they fetch the list
\* once and return the error of a failed fetch, else the ID of the first
\* entry whose name is the string or whose UUID starts with the string and
\* a hyphen, else a 'Could not find' error.
C20_MagicID ==
    MagicCalled =>
        /\ pc = "returned"
        /\ IF IsUUID(wat)
           THEN calls = <<>> /\ ret.value = wat /\ err = NoErr
           ELSE /\ Len(calls) = 1
                /\ IF HTTPFailed(resp) THEN err = isHTTPResOk(resp)
                   ELSE IF Named(wat, entries) = {}
                   THEN err.id = "new" /\ err.msg[1] = "Could not find "
                   ELSE /\ err = NoErr
                        /\ \E i \in Named(wat, entries) :
                              /\ \A j \in Named(wat, entries) : i <= j
                              /\ ret.value = entries[i].ID


(***************************************************************************)
(* Properties of the password rules and of the forced password change.     *)
(***************************************************************************)
\* the rules InteractiveForcePasswordChange announces to the user
MeetsAnnouncedRules(pw, profile, mail) ==
    /\ Len(pw) >= MinPasswordLength
    /\ ~profile.nil => ~EqualFold(pw, profile.User) /\ ~EqualFold(pw, mail)

\* C21: IsPasswordSane accepts a password if and only if it is at least 12
\* characters long and matches neither the user name nor the email address
\* on the account, compared without regard to case; with no profile only
\* the length rule applies.
C21_AnnouncedRules ==
    (pc = "returned" /\ cmd = "IsPasswordSane") =>
        ((err = NoErr) <=> MeetsAnnouncedRules(password, ActiveProfile, email))


PwChange == cmd = "InteractiveForcePasswordChange"
ChangeCall(pw) ==
    [verb |-> "POST", path |-> <<"user", "me", "password">>, body |-> [password |-> pw]]
LoginCall(usr, pw) ==
    [verb |-> "POST", path |-> <<"login">>, body |-> [user |-> usr, password |-> pw]]
Rejected(pw) == IsPasswordSane(pw, ActiveProfile) # NoErr
\* the calls of the whole sequence, in order
PwSequence == <<ChangeCall(password), LoginCall(ActiveProfile.User, password)>>

PwChangeState ==
    PwChange =>
        \* every password typed before the last one was rejected, and a
        \* rejected last one leads back to the prompt
        /\ \A i \in 1..Len(entered) : i < Len(entered) => Rejected(entered[i])
        /\ (entered # <<>> /\ Rejected(entered[Len(entered)])) =>
              /\ password = <<>>
              /\ calls = <<>>
              /\ pc \in {"prompt", "exited"}
        /\ password # <<>> =>
              /\ entered # <<>>
              /\ password = entered[Len(entered)]
              /\ ~Rejected(password)
        \* the calls are a prefix of the sequence and carry the accepted
        \* password only
        /\ Len(calls) <= 2
        /\ \A i \in 1..Len(calls) :
              /\ i <= 2
              /\ calls[i] = PwSequence[i]
              /\ ~Rejected(calls[i].body.password)
        /\ calls # <<>> => password # <<>>
        \* the new JWT is copied after the login, the config written after
        \* the copy, whatever IgnoreConfig is
        /\ ActiveProfile.JWT = "jwt2" =>
              Len(calls) = 2 /\ resp = OkResponse /\ API.JWT = "jwt2"
        /\ configWrites <= 1
        /\ configWrites = 1 =>
              ActiveProfile.JWT = "jwt2" /\ pc = "returned"
        /\ pc = "returned" => configWrites = 1 /\ exitCode = -1
        \* a prompt error or a failed call ends the process, nothing written
        /\ HTTPFailed(resp) => pc = "exited" /\ exitCode = 1
        /\ (output # <<>> /\ output[Len(output)].kind = "error") =>
              pc = "exited" /\ exitCode = 1
        /\ pc = "exited" => exitCode # 0 /\ configWrites = 0

PwChangeStep ==
    PwChange =>
        /\ (calls' # calls /\ calls # <<>>) => resp = OkResponse
        /\ ActiveProfile' # ActiveProfile =>
              resp = OkResponse /\ Len(calls) = 2 /\ configWrites = 0
        /\ configWrites' # configWrites =>
              /\ resp = OkResponse
              /\ Len(calls) = 2
              /\ ActiveProfile.JWT = API.JWT
              /\ ActiveProfile.JWT = "jwt2"

\* C22: InteractiveForcePasswordChange prompts again until a password
\* passes IsPasswordSane and sends no rejected password; then come, in this
\* order and each only after the one before succeeded, the change-password
\* call, the login with the new password, the copy of the new JWT into the
\* active profile and a config write that happens even when IgnoreConfig is
\* set; a prompt error or a failed call ends the process with no config
\* written.
C22_ForcedChange == [](PwChangeState) /\ [][PwChangeStep]_vars

C22_Witness ==
    /\ PwChange
    /\ pc = "returned"
    /\ IgnoreConfig
    /\ Len(entered) = 2
    /\ Len(calls) = 2
    /\ configWrites = 1
    /\ ActiveProfile.JWT = "jwt2"


(***************************************************************************)
(* Properties of the admin user commands and of rackUpdate.                *)
(***************************************************************************)
UserUpdates == {"updateUser", "promoteUser", "demoteUser"}
RevokeRequest(accessor) ==
    [verb |-> "POST", path |-> <<"user", UserEmail, "revoke">>, accessor |-> accessor]
Revokes == {RevokeRequest(a) : a \in {"RevokeUserTokensAndLogins", "RevokeUserLogins",
                                      "RevokeUserTokens"}}
\* the revoke call the options ask for, by precedence
Asked ==
    IF allAuth THEN RevokeRequest("RevokeUserTokensAndLogins")
    ELSE IF revokeAuth THEN RevokeRequest("RevokeUserLogins")
    ELSE RevokeRequest("RevokeUserTokens")

UpdateCalls == { i \in 1..Len(calls) : calls[i].verb = "POST" }

\* C24: updateUser sends the admin status it fetched, promoteUser and
\* demoteUser send the fetched email and name and set the admin flag to
\* true and to false; no update call follows a failed fetch.
C24_UpdateFrame ==
    cmd \in UserUpdates =>
        /\ Len(calls) <= 2
        /\ calls # <<>> => calls[1] = Request("GET", <<"user", UserEmail>>)
        /\ user = NoUser => UpdateCalls = {}
        /\ (Len(calls) = 1 /\ HTTPFailed(resp)) =>
              pc = "exited" /\ exitCode = 1 /\ user = NoUser
        /\ \A i \in UpdateCalls :
              /\ i = 2
              /\ calls[i].path = <<"user", user.ID>>
              /\ cmd = "updateUser" => calls[i].body.is_admin = user.IsAdmin
              /\ cmd = "promoteUser" =>
                    calls[i].body = [email |-> user.Email, name |-> user.Name,
                                     is_admin |-> TRUE]
              /\ cmd = "demoteUser" =>
                    calls[i].body = [email |-> user.Email, name |-> user.Name,
                                     is_admin |-> FALSE]

C24_Witness ==
    /\ cmd = "updateUser"
    /\ pc = "exited"
    /\ exitCode = 0
    /\ user.IsAdmin
    /\ nameOpt = "New Name"
    /\ Len(calls) = 2
    /\ calls[2].body.is_admin


\* the save calls rackUpdate has issued
Saves == { i \in 1..Len(calls) : calls[i].verb = "POST" }
\* an option that is set and is no UUID
BadUUIDOpt(opt) == opt # <<>> /\ FromString(opt).err # NoErr
\* the field of the saved rack is the option when it is set, else as fetched
KeepsOrSets(saved, opt, empty, was) ==
    IF opt # empty THEN saved = opt ELSE saved = was
KeepsOrSetsUUID(saved, opt, was) ==
    IF opt # <<>> THEN EqualFold(saved, opt) ELSE saved = was

\* C25: rackUpdate fetches the rack and saves it with the datacenter room
\* id, role id, name, serial number and asset tag of the options that are
\* not empty; every other field of the saved rack, its ID and phase among
\* them, is as fetched; an option that is no UUID ends the command before
\* any save call.
C25_RackFrame ==
    (cmd = "rackUpdate" /\ pc # "action") =>
        /\ calls[1] = Request("GET", <<"rack", GRackUUID>>)
        /\ (BadUUIDOpt(dcIDOpt) \/ BadUUIDOpt(roleIDOpt)) =>
              /\ Saves = {}
              /\ pc = "exited"
              /\ exitCode = 1
        /\ \A i \in Saves :
              LET saved == calls[i].body IN
              /\ i = 2
              /\ fetched # NoRack
              /\ saved.ID = fetched.ID
              /\ saved.Phase = fetched.Phase
              /\ saved.Created = fetched.Created
              /\ saved.Updated = fetched.Updated
              /\ KeepsOrSetsUUID(saved.DatacenterRoomID, dcIDOpt, fetched.DatacenterRoomID)
              /\ KeepsOrSetsUUID(saved.RoleID, roleIDOpt, fetched.RoleID)
              /\ KeepsOrSets(saved.Name, nameOpt, "", fetched.Name)
              /\ KeepsOrSets(saved.SerialNumber, snOpt, "", fetched.SerialNumber)
              /\ KeepsOrSets(saved.AssetTag, assetTagOpt, "", fetched.AssetTag)

C25_Witness ==
    /\ cmd = "rackUpdate"
    /\ pc = "exited"
    /\ exitCode = 0
    /\ Len(calls) = 2
    /\ dcIDOpt = <<"A", "b", "-", "2">>
    /\ roleIDOpt = <<>>
    /\ nameOpt = ""
    /\ snOpt = "sn2"
    /\ calls[2].body.Name = "Rack A"
    /\ calls[2].body.SerialNumber = "sn2"
    /\ calls[2].body.Phase = "installation"

=============================================================================
